---------------------------- MODULE Spec2Model ----------------------------
(***************************************************************************)
(* A model of the Picobot simulator (src/picobot/simulator.py): the room   *)
(* grid, the ordered rule list with first-match-wins matching, the         *)
(* single-step engine with its two halt conditions, the run loop and the   *)
(* reset operation.  Rows and columns are 0-indexed as in the source; the  *)
(* grid is stored as a sequence of rows, so cell (row, col) is             *)
(* grid[row + 1][col + 1].  A surroundings string such as "NxWx" is the    *)
(* 4-tuple <<"N", "x", "W", "x">>.                                         *)
(***************************************************************************)
EXTENDS Integers, Sequences, FiniteSets, TLC

VARIABLES
    room,         \* Picobot.room: [grid, height, width]
    rules,        \* Picobot.rules: the ordered list of Rule records
    constructed,  \* TRUE once Picobot.__init__ has returned normally
    position,     \* Picobot.position: <<row, col>>
    state,        \* Picobot.state
    visited,      \* Picobot.visited: set of <<row, col>>
    history,      \* Picobot.history: list of SimulationStep records
    halted,       \* Picobot._halted
    halt_reason,  \* Picobot._halt_reason: list of message parts, <<>> for ""
    call,         \* the last call made: operation name and arguments
    ret,          \* what that call returned or raised
    frame         \* test_rules_all_positions step by step: its local
                  \* variables, those of the run it has called, and where
                  \* it stands

vars == <<room, rules, constructed, position, state, visited, history,
          halted, halt_reason, call, ret, frame>>

---------------------------------------------------------------------------
(* Bounds of the model *)

MaxCells == 4
MaxHistory == 3
MaxSteps == 2
MaxRules == 2
MaxState == 1

---------------------------------------------------------------------------
(* Constants of the program *)

\* The compass in clockwise order instead of NEWS order.
DIRECTIONS_CLOCKWISE == <<"N", "E", "S", "W">>

DIRECTIONS == <<"N", "E", "W", "S">>

\* Movement vectors with the row axis pointing up: North increases the row.
MOVE_VECTORS_ROW_UP ==
    [N |-> <<1, 0>>, E |-> <<0, 1>>, W |-> <<0, -1>>, S |-> <<-1, 0>>,
     X |-> <<0, 0>>]

MOVE_VECTORS ==
    [N |-> <<-1, 0>>, E |-> <<0, 1>>, W |-> <<0, -1>>, S |-> <<1, 0>>,
     X |-> <<0, 0>>]

EMPTY == 0
WALL == 1

None == <<>>

---------------------------------------------------------------------------
(* Room *)

Room(grid) ==
    [grid |-> grid, height |-> Len(grid), width |-> Len(grid[1])]

\* A constructor that accepts rows of differing lengths.
Room_init_any_rows(grid) ==
    IF grid = <<>> \/ grid[1] = <<>>
    THEN [raised |-> "ValueError", room |-> None]
    ELSE [raised |-> "", room |-> Room(grid)]

\* Room.__init__: [raised, room].  grid is any list of lists of cells.
Room_init(grid) ==
    IF grid = <<>> \/ grid[1] = <<>>
    THEN [raised |-> "ValueError", room |-> None]
    ELSE LET width == Len(grid[1])
         IN  IF \E i \in 1..Len(grid) : Len(grid[i]) # width
             THEN [raised |-> "ValueError", room |-> None]
             ELSE [raised |-> "", room |-> Room(grid)]

\* An is_wall for which everything outside the grid is open.
is_wall_open_outside(rm, row, col) ==
    IF row < 0 \/ row >= rm.height \/ col < 0 \/ col >= rm.width
    THEN FALSE
    ELSE rm.grid[row + 1][col + 1] = WALL

is_wall(rm, row, col) ==
    IF row < 0 \/ row >= rm.height \/ col < 0 \/ col >= rm.width
    THEN TRUE
    ELSE rm.grid[row + 1][col + 1] = WALL

is_empty(rm, row, col) == ~is_wall(rm, row, col)

\* The cells of the grid column by column.
ColumnMajor(rm) ==
    [k \in 1..(rm.height * rm.width) |->
        <<(k - 1) % rm.height, (k - 1) \div rm.height>>]

\* The cells of the grid in the order of the nested loops over range(height)
\* and range(width).
RowMajor(rm) ==
    [k \in 1..(rm.height * rm.width) |->
        <<(k - 1) \div rm.width, (k - 1) % rm.width>>]

IsEmptyCell(rm, p) == rm.grid[p[1] + 1][p[2] + 1] = EMPTY

get_empty_cells(rm) ==
    LET Keep(p) == IsEmptyCell(rm, p) IN SelectSeq(RowMajor(rm), Keep)

count_empty_cells(rm) ==
    Cardinality({k \in 1..(rm.height * rm.width) : IsEmptyCell(rm, RowMajor(rm)[k])})

\* Room.empty_room: [raised, room].
empty_room(height, width) ==
    IF height < 3 \/ width < 3
    THEN [raised |-> "ValueError", room |-> None]
    ELSE Room_init(
            [r \in 1..height |->
                [c \in 1..width |->
                    LET row_idx == r - 1
                        col_idx == c - 1
                        is_boundary ==
                            \/ row_idx = 0
                            \/ row_idx = height - 1
                            \/ col_idx = 0
                            \/ col_idx = width - 1
                    IN  IF is_boundary THEN WALL ELSE EMPTY]])

\* A text is the sequence of its characters.  Whitespace is what str.strip()
\* removes (the vertical tab has no TLA+ literal and is left out).
Whitespace == {" ", "\t", "\n", "\r", "\f"}

\* str.strip()
Strip(text) ==
    LET kept == {i \in 1..Len(text) : text[i] \notin Whitespace}
    IN  IF kept = {} THEN <<>>
        ELSE SubSeq(text, CHOOSE i \in kept : \A j \in kept : i <= j,
                          CHOOSE i \in kept : \A j \in kept : i >= j)

\* str.split(sep)
RECURSIVE Split(_, _)
Split(text, sep) ==
    LET at == {i \in 1..Len(text) : text[i] = sep}
    IN  IF at = {} THEN <<text>>
        ELSE LET k == CHOOSE i \in at : \A j \in at : i <= j
             IN  <<SubSeq(text, 1, k - 1)>>
                 \o Split(SubSeq(text, k + 1, Len(text)), sep)

\* Room.from_string: [raised, room].
from_string(room_string) ==
    LET NonEmpty(line) == line # <<>>
        lines == SelectSeq(Split(Strip(room_string), "\n"), NonEmpty)
    IN  IF lines = <<>>
        THEN [raised |-> "ValueError", room |-> None]
        ELSE
        LET expected_width == Len(lines[1])
        IN  IF \E i \in 1..Len(lines) :
                  \/ Len(lines[i]) # expected_width
                  \/ \E j \in 1..Len(lines[i]) :
                        lines[i][j] \notin {"#", "W", ".", " "}
            THEN [raised |-> "ValueError", room |-> None]
            ELSE Room_init(
                    [i \in 1..Len(lines) |->
                        [j \in 1..Len(lines[i]) |->
                            IF lines[i][j] \in {"#", "W"} THEN WALL
                            ELSE EMPTY]])

create_empty_room(height, width) == empty_room(height, width)

SMALL_MAZE_STRING ==
    <<"\n">>
    \o <<"#", "#", "#", "#", "#", "#", "#", "#", "#", "\n">>
    \o <<"#", ".", ".", ".", ".", ".", ".", ".", "#", "\n">>
    \o <<"#", "#", "#", "#", "#", "#", "#", ".", "#", "\n">>
    \o <<"#", ".", ".", ".", ".", ".", ".", ".", "#", "\n">>
    \o <<"#", ".", "#", "#", "#", "#", "#", "#", "#", "\n">>
    \o <<"#", ".", ".", ".", ".", ".", ".", ".", "#", "\n">>
    \o <<"#", "#", "#", "#", "#", "#", "#", ".", "#", "\n">>
    \o <<"#", ".", ".", ".", ".", ".", ".", ".", "#", "\n">>
    \o <<"#", "#", "#", "#", "#", "#", "#", "#", "#", "\n">>

create_small_maze == from_string(SMALL_MAZE_STRING)

---------------------------------------------------------------------------
(* Rule *)

Rule(st, pattern, direction, new_state, line_number) ==
    [state |-> st, surroundings_pattern |-> pattern, direction |-> direction,
     new_state |-> new_state, line_number |-> line_number]

Min(a, b) == IF a < b THEN a ELSE b

\* zip() stops at the shorter of the two strings.
matches(rule, current_state, surroundings) ==
    IF current_state # rule.state
    THEN FALSE
    ELSE \A i \in 1..Min(Len(rule.surroundings_pattern), Len(surroundings)) :
            \/ rule.surroundings_pattern[i] = "*"
            \/ rule.surroundings_pattern[i] = surroundings[i]

\* A scan that keeps the last matching rule instead of returning the first.
RECURSIVE FindLastFrom(_, _, _, _)
FindLastFrom(rl, i, st, surroundings) ==
    IF i > Len(rl) THEN None
    ELSE LET later == FindLastFrom(rl, i + 1, st, surroundings)
         IN  IF later # None THEN later
             ELSE IF matches(rl[i], st, surroundings) THEN <<rl[i]>>
             ELSE None

RECURSIVE FindFrom(_, _, _, _)
FindFrom(rl, i, st, surroundings) ==
    IF i > Len(rl) THEN None
    ELSE IF matches(rl[i], st, surroundings) THEN <<rl[i]>>
    ELSE FindFrom(rl, i + 1, st, surroundings)

\* Returns <<rule>> for the rule found and None (<<>>) when no rule matches.
find_matching_rule(rl, st, surroundings) == FindFrom(rl, 1, st, surroundings)

---------------------------------------------------------------------------
(* parse_rules and Rule.__str__ *)

DigitChars == <<"0", "1", "2", "3", "4", "5", "6", "7", "8", "9">>

\* \d
Digit == {DigitChars[i] : i \in 1..Len(DigitChars)}

\* [NEWSxX*] under re.IGNORECASE
PatternChars == {"N", "E", "W", "S", "x", "X", "*", "n", "e", "w", "s"}

\* [NEWSX] under re.IGNORECASE
DirectionChars == {"N", "E", "W", "S", "X", "n", "e", "w", "s", "x"}

\* str.upper() of one character
Upper(c) ==
    CASE c = "n" -> "N"
      [] c = "e" -> "E"
      [] c = "w" -> "W"
      [] c = "s" -> "S"
      [] c = "x" -> "X"
      [] OTHER -> c

\* The number of consecutive characters of line, from index i on, that are
\* in class: what a greedy \d+, \s+ or \s* consumes at i.
Span(line, i, class) ==
    CHOOSE n \in 0..(Len(line) + 1 - i) :
        /\ \A k \in i..(i + n - 1) : line[k] \in class
        /\ i + n > Len(line) \/ line[i + n] \notin class

\* int() of a string of decimal digits
RECURSIVE int(_)
int(ds) ==
    IF ds = <<>> THEN 0
    ELSE 10 * int(SubSeq(ds, 1, Len(ds) - 1))
         + ((CHOOSE i \in 1..10 : DigitChars[i] = ds[Len(ds)]) - 1)

\* str() of a non-negative integer
RECURSIVE str(_)
str(n) ==
    IF n < 10 THEN <<DigitChars[n + 1]>>
    ELSE str(n \div 10) \o <<DigitChars[(n % 10) + 1]>>

NoMatch == [matched |-> FALSE, groups |-> <<>>]

\* rule_pattern.match(line): [matched, groups], groups being the four
\* captured texts.  Adjacent parts of the expression draw on disjoint
\* character classes, so the greedy scan is the only way to match.
RuleMatchNewstate(line, g1, g2, g3, n) ==
    LET d2 == Span(line, n, Digit)
        w5 == Span(line, n + d2, Whitespace)
    IN  IF d2 >= 1 /\ n + d2 + w5 = Len(line) + 1
        THEN [matched |-> TRUE,
              groups |-> <<g1, g2, g3, SubSeq(line, n, n + d2 - 1)>>]
        ELSE NoMatch

RuleMatchDirection(line, g1, g2, d) ==
    IF d <= Len(line) /\ line[d] \in DirectionChars
          /\ Span(line, d + 1, Whitespace) >= 1
    THEN RuleMatchNewstate(line, g1, g2, <<line[d]>>,
                           d + 1 + Span(line, d + 1, Whitespace))
    ELSE NoMatch

RuleMatchArrow(line, g1, g2, a) ==
    IF a + 1 <= Len(line) /\ line[a] = "-" /\ line[a + 1] = ">"
    THEN RuleMatchDirection(line, g1, g2,
                            a + 2 + Span(line, a + 2, Whitespace))
    ELSE NoMatch

RuleMatchSurroundings(line, g1, p) ==
    IF p + 3 <= Len(line) /\ \A k \in p..(p + 3) : line[k] \in PatternChars
    THEN RuleMatchArrow(line, g1, SubSeq(line, p, p + 3),
                        p + 4 + Span(line, p + 4, Whitespace))
    ELSE NoMatch

rule_pattern_match(line) ==
    LET d1 == Span(line, 1, Digit)
        w1 == Span(line, 1 + d1, Whitespace)
    IN  IF d1 >= 1 /\ w1 >= 1
        THEN RuleMatchSurroundings(line, SubSeq(line, 1, d1), 1 + d1 + w1)
        ELSE NoMatch

\* The loop that normalizes the upper-cased surroundings: [raised, text].
NormalizeSurroundings(surroundings) ==
    IF \E i \in 1..Len(surroundings) :
          surroundings[i] \notin {"X", "*", "N", "E", "W", "S", "x"}
    THEN [raised |-> TRUE, text |-> <<>>]
    ELSE [raised |-> FALSE,
          text |-> [i \in 1..Len(surroundings) |->
                       IF surroundings[i] = "X" THEN "x"
                       ELSE surroundings[i]]]

\* line[:line.index('#')] when '#' is in the line, then line.strip()
StripComment(line) ==
    LET at == {i \in 1..Len(line) : line[i] = "#"}
    IN  Strip(IF at = {} THEN line
              ELSE SubSeq(line, 1, (CHOOSE i \in at : \A j \in at : i <= j) - 1))

\* raise ValueError(message)
ParseError(message) == [raised |-> "ValueError", message |-> message, rules |-> None]

RECURSIVE ParseLines(_, _, _)

\* A loop body that does not check the range of new_state.
ParseFieldsAnyNewState(lines, line_num, rules_, state_, surroundings, direction, new_state) ==
    IF ~(0 <= state_ /\ state_ <= 99)
    THEN ParseError(<<"Invalid state", state_, "at line", line_num>>)
    ELSE ParseLines(lines, line_num + 1,
                    Append(rules_,
                           Rule(state_, NormalizeSurroundings(surroundings).text,
                                direction, new_state, line_num)))

\* A loop body that puts each new rule in front of the earlier ones.
ParseFieldsPrepend(lines, line_num, rules_, state_, surroundings, direction, new_state) ==
    IF ~(0 <= state_ /\ state_ <= 99)
    THEN ParseError(<<"Invalid state", state_, "at line", line_num>>)
    ELSE IF ~(0 <= new_state /\ new_state <= 99)
    THEN ParseError(<<"Invalid new_state", new_state, "at line", line_num>>)
    ELSE ParseLines(lines, line_num + 1,
                    <<Rule(state_, NormalizeSurroundings(surroundings).text,
                           direction, new_state, line_num)>> \o rules_)

\* The body of the loop for a line that matched rule_pattern.
ParseFields(lines, line_num, rules_, state_, surroundings, direction, new_state) ==
    IF ~(0 <= state_ /\ state_ <= 99)
    THEN ParseError(<<"Invalid state", state_, "at line", line_num>>)
    ELSE IF ~(0 <= new_state /\ new_state <= 99)
    THEN ParseError(<<"Invalid new_state", new_state, "at line", line_num>>)
    ELSE IF NormalizeSurroundings(surroundings).raised
    THEN ParseError(<<"Invalid surroundings character", "at line", line_num>>)
    ELSE ParseLines(lines, line_num + 1,
                    Append(rules_,
                           Rule(state_, NormalizeSurroundings(surroundings).text,
                                direction, new_state, line_num)))

ParseMatch(lines, line_num, rules_, line, match) ==
    IF ~match.matched
    THEN ParseError(<<"Invalid rule syntax at line", line_num, line>>)
    ELSE ParseFields(lines, line_num, rules_, int(match.groups[1]),
                     [i \in 1..4 |-> Upper(match.groups[2][i])],
                     Upper(match.groups[3][1]), int(match.groups[4]))

ParseLine(lines, line_num, rules_, line) ==
    IF line = <<>> THEN ParseLines(lines, line_num + 1, rules_)
    ELSE ParseMatch(lines, line_num, rules_, line, rule_pattern_match(line))

\* for line_num, line in enumerate(rules_text.split('\n'), start=1)
ParseLines(lines, line_num, rules_) ==
    IF line_num > Len(lines)
    THEN [raised |-> "", message |-> <<>>, rules |-> rules_]
    ELSE ParseLine(lines, line_num, rules_, StripComment(lines[line_num]))

\* parse_rules: [raised, message, rules]
parse_rules(rules_text) == ParseLines(Split(rules_text, "\n"), 1, <<>>)

\* Rule.__str__
Rule_str(rule) ==
    str(rule.state) \o <<" ">> \o rule.surroundings_pattern
    \o <<" ", "-", ">", " ">> \o <<rule.direction>> \o <<" ">>
    \o str(rule.new_state)

---------------------------------------------------------------------------
(* Picobot: the agent as a record of its mutable fields *)

Self ==
    [room |-> room, rules |-> rules,
     position |-> position, state |-> state, visited |-> visited,
     history |-> history, halted |-> halted, halt_reason |-> halt_reason]

SimulationStep(step_number, pos, st, surroundings, rule_applied, new_position, new_state) ==
    [step_number |-> step_number, position |-> pos, state |-> st,
     surroundings |-> surroundings, rule_applied |-> rule_applied,
     new_position |-> new_position, new_state |-> new_state]

\* A constructor that does not count the start position as visited.
PicobotStartUnvisited(rm, rl, start_position) ==
    LET empty_cells == get_empty_cells(rm)
        fresh(start) ==
            [room |-> rm, rules |-> rl,
             position |-> start, state |-> 0, visited |-> {},
             history |-> <<>>, halted |-> FALSE, halt_reason |-> <<>>]
    IN  IF start_position = None
        THEN IF empty_cells = <<>>
             THEN [raised |-> "ValueError", self |-> None]
             ELSE [raised |-> "", self |-> fresh(empty_cells[1])]
        ELSE IF is_wall(rm, start_position[1], start_position[2])
             THEN [raised |-> "ValueError", self |-> None]
             ELSE [raised |-> "", self |-> fresh(start_position)]

\* Picobot.__init__: [raised, self].  start_position is None or <<row, col>>.
\* The agent keeps the room and the rule list it was given (self.room,
\* self.rules).
Picobot(rm, rl, start_position) ==
    LET empty_cells == get_empty_cells(rm)
        fresh(start) ==
            [room |-> rm, rules |-> rl,
             position |-> start, state |-> 0, visited |-> {start},
             history |-> <<>>, halted |-> FALSE, halt_reason |-> <<>>]
    IN  IF start_position = None
        THEN IF empty_cells = <<>>
             THEN [raised |-> "ValueError", self |-> None]
             ELSE [raised |-> "", self |-> fresh(empty_cells[1])]
        ELSE IF is_wall(rm, start_position[1], start_position[2])
             THEN [raised |-> "ValueError", self |-> None]
             ELSE [raised |-> "", self |-> fresh(start_position)]

get_surroundings(rm, pos) ==
    [i \in 1..Len(DIRECTIONS) |->
        LET direction == DIRECTIONS[i]
            neighbor_row == pos[1] + MOVE_VECTORS[direction][1]
            neighbor_col == pos[2] + MOVE_VECTORS[direction][2]
        IN  IF is_wall(rm, neighbor_row, neighbor_col) THEN direction ELSE "x"]

\* A no-rule halt that forgets to record the failed step.
HaltNoRuleUnrecorded(self, surroundings) ==
    [self EXCEPT
        !.halted = TRUE,
        !.halt_reason = <<"No rule matches state", self.state,
                          "with surroundings", surroundings>>]

\* Picobot.step, no rule matches: halt and record the failed step.
HaltNoRule(self, surroundings) ==
    [self EXCEPT
        !.halted = TRUE,
        !.halt_reason = <<"No rule matches state", self.state,
                          "with surroundings", surroundings>>,
        !.history = Append(@,
            SimulationStep(Len(self.history), self.position, self.state,
                           surroundings, None, self.position, self.state))]

\* An illegal-move halt that still applies the rule's new state.
HaltIllegalMoveNewState(self, surroundings, rule, new_position) ==
    [self EXCEPT
        !.state = rule.new_state,
        !.halted = TRUE,
        !.halt_reason = <<"Rule", rule, "tried to move into wall at",
                          new_position>>,
        !.history = Append(@,
            SimulationStep(Len(self.history), self.position, self.state,
                           surroundings, <<rule>>, self.position,
                           rule.new_state))]

\* An illegal-move halt that counts the cell it could not enter as visited.
HaltIllegalMoveVisitsTarget(self, surroundings, rule, new_position) ==
    [self EXCEPT
        !.visited = @ \cup {new_position},
        !.halted = TRUE,
        !.halt_reason = <<"Rule", rule, "tried to move into wall at",
                          new_position>>,
        !.history = Append(@,
            SimulationStep(Len(self.history), self.position, self.state,
                           surroundings, <<rule>>, self.position, self.state))]

\* Picobot.step, the move leads into a wall: halt and record the failed step.
HaltIllegalMove(self, surroundings, rule, new_position) ==
    [self EXCEPT
        !.halted = TRUE,
        !.halt_reason = <<"Rule", rule, "tried to move into wall at",
                          new_position>>,
        !.history = Append(@,
            SimulationStep(Len(self.history), self.position, self.state,
                           surroundings, <<rule>>, self.position, self.state))]

\* A legal move that forgets the cells visited before.
ExecuteMoveForgetVisited(self, surroundings, rule, new_position) ==
    [self EXCEPT
        !.position = new_position,
        !.state = rule.new_state,
        !.visited = {new_position},
        !.history = Append(@,
            SimulationStep(Len(self.history), self.position, self.state,
                           surroundings, <<rule>>, new_position,
                           rule.new_state))]

\* A legal move that counts the state up instead of taking the rule's.
ExecuteMoveCountState(self, surroundings, rule, new_position) ==
    [self EXCEPT
        !.position = new_position,
        !.state = self.state + 1,
        !.visited = @ \cup {new_position},
        !.history = Append(@,
            SimulationStep(Len(self.history), self.position, self.state,
                           surroundings, <<rule>>, new_position,
                           self.state + 1))]

\* A legal move that removes the first rule from the agent's rule list.
ExecuteMoveConsumeRule(self, surroundings, rule, new_position) ==
    [self EXCEPT
        !.rules = Tail(@),
        !.position = new_position,
        !.state = rule.new_state,
        !.visited = @ \cup {new_position},
        !.history = Append(@,
            SimulationStep(Len(self.history), self.position, self.state,
                           surroundings, <<rule>>, new_position,
                           rule.new_state))]

\* A legal move whose record counts the steps from 1 instead of 0.
ExecuteMoveNumberFromOne(self, surroundings, rule, new_position) ==
    [self EXCEPT
        !.position = new_position,
        !.state = rule.new_state,
        !.visited = @ \cup {new_position},
        !.history = Append(@,
            SimulationStep(Len(self.history) + 1, self.position, self.state,
                           surroundings, <<rule>>, new_position,
                           rule.new_state))]

\* Picobot.step, the move is legal: execute it and record the step.
ExecuteMove(self, surroundings, rule, new_position) ==
    [self EXCEPT
        !.position = new_position,
        !.state = rule.new_state,
        !.visited = @ \cup {new_position},
        !.history = Append(@,
            SimulationStep(Len(self.history), self.position, self.state,
                           surroundings, <<rule>>, new_position,
                           rule.new_state))]

\* A step that executes the move without validating it against the walls.
step_unvalidated(self, rm, rl) ==
    IF self.halted THEN [self |-> self, ret |-> FALSE]
    ELSE
    LET surroundings == get_surroundings(rm, self.position)
        found == find_matching_rule(rl, self.state, surroundings)
    IN  IF found = None
        THEN [self |-> HaltNoRule(self, surroundings), ret |-> FALSE]
        ELSE
        LET rule == found[1]
            new_row == self.position[1] + MOVE_VECTORS[rule.direction][1]
            new_col == self.position[2] + MOVE_VECTORS[rule.direction][2]
        IN  [self |-> ExecuteMove(self, surroundings, rule,
                                  <<new_row, new_col>>),
             ret |-> TRUE]

\* A step that does not look at the halted flag.
step_after_halt(self, rm, rl) ==
    LET surroundings == get_surroundings(rm, self.position)
        found == find_matching_rule(rl, self.state, surroundings)
    IN  IF found = None
        THEN [self |-> HaltNoRule(self, surroundings), ret |-> FALSE]
        ELSE
        LET rule == found[1]
            new_row == self.position[1] + MOVE_VECTORS[rule.direction][1]
            new_col == self.position[2] + MOVE_VECTORS[rule.direction][2]
        IN  IF is_wall(rm, new_row, new_col)
            THEN [self |-> HaltIllegalMove(self, surroundings, rule,
                                           <<new_row, new_col>>),
                  ret |-> FALSE]
            ELSE [self |-> ExecuteMove(self, surroundings, rule,
                                       <<new_row, new_col>>),
                  ret |-> TRUE]

\* Picobot.step: [self, ret].
step(self, rm, rl) ==
    IF self.halted THEN [self |-> self, ret |-> FALSE]
    ELSE
    LET current_position == self.position
        current_state == self.state
        surroundings == get_surroundings(rm, self.position)
        found == find_matching_rule(rl, current_state, surroundings)
    IN  IF found = None
        THEN [self |-> HaltNoRule(self, surroundings), ret |-> FALSE]
        ELSE
        LET rule == found[1]
            new_row == current_position[1] + MOVE_VECTORS[rule.direction][1]
            new_col == current_position[2] + MOVE_VECTORS[rule.direction][2]
            new_position == <<new_row, new_col>>
        IN  IF is_wall(rm, new_row, new_col)
            THEN [self |-> HaltIllegalMove(self, surroundings, rule,
                                           new_position),
                  ret |-> FALSE]
            ELSE [self |-> ExecuteMove(self, surroundings, rule, new_position),
                  ret |-> TRUE]

\* A run loop that never looks at the coverage before taking a step.
RECURSIVE RunLoopNoCoverageCheck(_, _, _, _, _, _, _, _)
RunLoopNoCoverageCheck(self, rm, rl, total_empty, i, max_steps, stop_on_full_coverage, steps_taken) ==
    IF i >= max_steps
    THEN [self |-> self, steps_taken |-> steps_taken, exit |-> "exhausted"]
    ELSE LET s == step(self, rm, rl)
         IN  IF ~s.ret
             THEN [self |-> s.self, steps_taken |-> i + 1, exit |-> "halted"]
             ELSE RunLoopNoCoverageCheck(s.self, rm, rl, total_empty, i + 1,
                                         max_steps, stop_on_full_coverage,
                                         i + 1)

\* A run loop that tests its budget one iteration too late.
RECURSIVE RunLoopOneMore(_, _, _, _, _, _, _, _)
RunLoopOneMore(self, rm, rl, total_empty, i, max_steps, stop_on_full_coverage, steps_taken) ==
    IF i > max_steps
    THEN [self |-> self, steps_taken |-> steps_taken, exit |-> "exhausted"]
    ELSE IF stop_on_full_coverage /\ Cardinality(self.visited) >= total_empty
    THEN [self |-> self, steps_taken |-> steps_taken, exit |-> "coverage"]
    ELSE LET s == step(self, rm, rl)
         IN  IF ~s.ret
             THEN [self |-> s.self, steps_taken |-> i + 1, exit |-> "halted"]
             ELSE RunLoopOneMore(s.self, rm, rl, total_empty, i + 1, max_steps,
                                 stop_on_full_coverage, i + 1)

\* The for loop of Picobot.run from iteration number i on:
\* [self, steps_taken, exit], exit naming the way the loop was left: by the
\* full-coverage break, by the break after a failed step, or by range(max_steps)
\* running out.
RECURSIVE RunLoop(_, _, _, _, _, _, _, _)
RunLoop(self, rm, rl, total_empty, i, max_steps, stop_on_full_coverage, steps_taken) ==
    IF i >= max_steps
    THEN [self |-> self, steps_taken |-> steps_taken, exit |-> "exhausted"]
    ELSE IF stop_on_full_coverage /\ Cardinality(self.visited) >= total_empty
    THEN [self |-> self, steps_taken |-> steps_taken, exit |-> "coverage"]
    ELSE LET s == step(self, rm, rl)
         IN  IF ~s.ret
             THEN [self |-> s.self, steps_taken |-> i + 1, exit |-> "halted"]
             ELSE RunLoop(s.self, rm, rl, total_empty, i + 1, max_steps,
                          stop_on_full_coverage, i + 1)

\* A result whose success also demands that the agent did not halt.
RunResultUnhalted(self, total_empty, steps_taken) ==
    [success |-> Cardinality(self.visited) >= total_empty /\ ~self.halted,
     steps |-> steps_taken,
     coverage |-> <<100 * Cardinality(self.visited), total_empty>>,
     visited |-> Cardinality(self.visited),
     total |-> total_empty,
     halted |-> self.halted,
     halt_reason |-> self.halt_reason]

\* The result dictionary of Picobot.run.  The coverage percentage
\* 100 * len(visited) / total_empty is kept as <<numerator, denominator>>.
RunResult(self, total_empty, steps_taken) ==
    [success |-> Cardinality(self.visited) >= total_empty,
     steps |-> steps_taken,
     coverage |-> <<100 * Cardinality(self.visited), total_empty>>,
     visited |-> Cardinality(self.visited),
     total |-> total_empty,
     halted |-> self.halted,
     halt_reason |-> self.halt_reason]

\* A run that empties the trace before it starts stepping.
run_clear_trace(self, rm, rl, max_steps, stop_on_full_coverage) ==
    LET total_empty == count_empty_cells(rm)
        r == RunLoop([self EXCEPT !.history = <<>>], rm, rl, total_empty, 0,
                     max_steps, stop_on_full_coverage, 0)
    IN  [self |-> r.self,
         ret |-> RunResult(r.self, total_empty, r.steps_taken),
         exit |-> r.exit]

\* Picobot.run: [self, ret, exit].
run(self, rm, rl, max_steps, stop_on_full_coverage) ==
    LET total_empty == count_empty_cells(rm)
        r == RunLoop(self, rm, rl, total_empty, 0, max_steps,
                     stop_on_full_coverage, 0)
    IN  [self |-> r.self,
         ret |-> RunResult(r.self, total_empty, r.steps_taken),
         exit |-> r.exit]

is_complete(self, rm) == Cardinality(self.visited) >= count_empty_cells(rm)

\* A reset that adds the new start to the cells visited before instead of
\* starting the set anew.
reset_keep_visited(self, rm, start_position) ==
    LET empty_cells == get_empty_cells(rm)
        start == IF start_position = None THEN empty_cells[1]
                 ELSE start_position
    IN  IF start_position = None /\ empty_cells = <<>>
        THEN [raised |-> "ValueError", self |-> self]
        ELSE [raised |-> "",
              self |-> [room |-> self.room, rules |-> self.rules,
                        position |-> start, state |-> 0,
                        visited |-> self.visited \cup {start},
                        history |-> <<>>, halted |-> FALSE,
                        halt_reason |-> <<>>]]

\* Picobot.reset: [raised, self].
reset(self, rm, start_position) ==
    LET empty_cells == get_empty_cells(rm)
        start == IF start_position = None THEN empty_cells[1]
                 ELSE start_position
    IN  IF start_position = None /\ empty_cells = <<>>
        THEN [raised |-> "ValueError", self |-> self]
        ELSE [raised |-> "",
              self |-> [room |-> self.room, rules |-> self.rules,
                        position |-> start, state |-> 0, visited |-> {start},
                        history |-> <<>>, halted |-> FALSE,
                        halt_reason |-> <<>>]]

---------------------------------------------------------------------------
(* test_rules_all_positions *)

\* max(s) of a non-empty list
SeqMax(s) == CHOOSE m \in {s[i] : i \in 1..Len(s)} : \A j \in 1..Len(s) : s[j] <= m

RECURSIVE SeqSum(_)
SeqSum(s) == IF s = <<>> THEN 0 ELSE s[1] + SeqSum(Tail(s))

RECURSIVE TestLoop(_, _, _, _, _, _, _, _)

\* A verifier that puts each new failure in front of the earlier ones.
TestResultPrepend(rm, rl, max_steps, empty_cells, i, failures, steps_list, passed, result) ==
    IF result.success
    THEN TestLoop(rm, rl, max_steps, empty_cells, i + 1, failures,
                  Append(steps_list, result.steps), passed + 1)
    ELSE TestLoop(rm, rl, max_steps, empty_cells, i + 1,
                  <<<<empty_cells[i], result>>>> \o failures,
                  steps_list, passed)

\* The loop body of test_rules_all_positions once result = bot.run(...) is
\* known: the run is counted as passed or filed under failures, and the loop
\* goes on.
TestResult(rm, rl, max_steps, empty_cells, i, failures, steps_list, passed, result) ==
    IF result.success
    THEN TestLoop(rm, rl, max_steps, empty_cells, i + 1, failures,
                  Append(steps_list, result.steps), passed + 1)
    ELSE TestLoop(rm, rl, max_steps, empty_cells, i + 1,
                  Append(failures, <<empty_cells[i], result>>),
                  steps_list, passed)

\* The loop body once bot = Picobot(room, rules, start_position=start_pos) is
\* known: the bot is run with the default stop_on_full_coverage = True.
TestBot(rm, rl, max_steps, empty_cells, i, failures, steps_list, passed, bot) ==
    IF bot.raised # ""
    THEN [raised |-> bot.raised, failures |-> failures, steps_list |-> steps_list, passed |-> passed]
    ELSE TestResult(rm, rl, max_steps, empty_cells, i, failures, steps_list,
                    passed, run(bot.self, rm, rl, max_steps, TRUE).ret)

\* The for loop of test_rules_all_positions from the i-th empty cell on
\* (1-based), start_pos being empty_cells[i].
TestLoop(rm, rl, max_steps, empty_cells, i, failures, steps_list, passed) ==
    IF i > Len(empty_cells)
    THEN [raised |-> "", failures |-> failures, steps_list |-> steps_list, passed |-> passed]
    ELSE TestBot(rm, rl, max_steps, empty_cells, i, failures, steps_list,
                 passed, Picobot(rm, rl, empty_cells[i]))

\* The result dictionary of test_rules_all_positions.  avg_steps, the
\* quotient sum(steps_list) / len(steps_list), is kept as <<sum, len>>, and as
\* <<0, 1>> for the 0 of an empty steps_list.
Report(empty_cells, failures, steps_list, passed) ==
    [success |-> Len(failures) = 0,
     positions_tested |-> Len(empty_cells),
     positions_passed |-> passed,
     failures |-> failures,
     max_steps_used |-> IF steps_list # <<>> THEN SeqMax(steps_list) ELSE 0,
     avg_steps |->
        IF steps_list # <<>> THEN <<SeqSum(steps_list), Len(steps_list)>>
        ELSE <<0, 1>>]

\* What test_rules_all_positions returns when its loop has ended with r.
TestReturn(empty_cells, r) ==
    [raised |-> r.raised,
     report |-> Report(empty_cells, r.failures, r.steps_list, r.passed)]

\* test_rules_all_positions: [raised, report].
test_rules_all_positions(rm, rl, max_steps) ==
    TestReturn(get_empty_cells(rm),
               TestLoop(rm, rl, max_steps, get_empty_cells(rm), 1, <<>>, <<>>,
                        0))

---------------------------------------------------------------------------
(* Rule sets, as parse_rules returns them (line_number is the 1-based line *)
(* of the rule in its text)                                                *)

\* The empty-room solution without its rule for the north-east corner.
EMPTY_ROOM_INITIAL_NO_CORNER ==
    <<Rule(0, <<"x", "*", "*", "*">>, "N", 0, 10),
      Rule(0, <<"N", "x", "*", "*">>, "E", 1, 13),
      Rule(1, <<"*", "x", "*", "*">>, "E", 1, 22),
      Rule(1, <<"*", "E", "*", "*">>, "W", 2, 25),
      Rule(2, <<"*", "*", "x", "*">>, "W", 2, 30),
      Rule(2, <<"*", "*", "W", "*">>, "S", 1, 33)>>

EMPTY_ROOM_INITIAL ==
    <<Rule(0, <<"x", "*", "*", "*">>, "N", 0, 10),
      Rule(0, <<"N", "x", "*", "*">>, "E", 1, 13),
      Rule(0, <<"N", "E", "*", "*">>, "W", 2, 17),
      Rule(1, <<"*", "x", "*", "*">>, "E", 1, 22),
      Rule(1, <<"*", "E", "*", "*">>, "W", 2, 25),
      Rule(2, <<"*", "*", "x", "*">>, "W", 2, 30),
      Rule(2, <<"*", "*", "W", "*">>, "S", 1, 33)>>

\* The maze solution without its state-2 rule for turning back at a west
\* dead end.
MAZE_INITIAL_NO_TURN_BACK ==
    <<Rule(0, <<"x", "E", "*", "*">>, "N", 0, 13),
      Rule(0, <<"*", "x", "*", "*">>, "E", 1, 16),
      Rule(0, <<"N", "E", "x", "*">>, "W", 2, 19),
      Rule(0, <<"N", "E", "W", "x">>, "S", 3, 22),
      Rule(1, <<"*", "x", "*", "S">>, "E", 1, 29),
      Rule(1, <<"*", "*", "*", "x">>, "S", 3, 32),
      Rule(1, <<"x", "E", "*", "S">>, "N", 0, 35),
      Rule(1, <<"N", "E", "x", "S">>, "W", 2, 38),
      Rule(2, <<"N", "*", "x", "*">>, "W", 2, 45),
      Rule(2, <<"x", "*", "*", "*">>, "N", 0, 48),
      Rule(2, <<"N", "*", "W", "x">>, "S", 3, 51),
      Rule(3, <<"*", "*", "W", "x">>, "S", 3, 61),
      Rule(3, <<"*", "*", "x", "*">>, "W", 2, 64),
      Rule(3, <<"*", "x", "W", "S">>, "E", 1, 67),
      Rule(3, <<"x", "E", "W", "S">>, "N", 0, 70)>>

MAZE_INITIAL ==
    <<Rule(0, <<"x", "E", "*", "*">>, "N", 0, 13),
      Rule(0, <<"*", "x", "*", "*">>, "E", 1, 16),
      Rule(0, <<"N", "E", "x", "*">>, "W", 2, 19),
      Rule(0, <<"N", "E", "W", "x">>, "S", 3, 22),
      Rule(1, <<"*", "x", "*", "S">>, "E", 1, 29),
      Rule(1, <<"*", "*", "*", "x">>, "S", 3, 32),
      Rule(1, <<"x", "E", "*", "S">>, "N", 0, 35),
      Rule(1, <<"N", "E", "x", "S">>, "W", 2, 38),
      Rule(2, <<"N", "*", "x", "*">>, "W", 2, 45),
      Rule(2, <<"x", "*", "*", "*">>, "N", 0, 48),
      Rule(2, <<"N", "*", "W", "x">>, "S", 3, 51),
      Rule(2, <<"N", "x", "W", "S">>, "E", 1, 54),
      Rule(3, <<"*", "*", "W", "x">>, "S", 3, 61),
      Rule(3, <<"*", "*", "x", "*">>, "W", 2, 64),
      Rule(3, <<"*", "x", "W", "S">>, "E", 1, 67),
      Rule(3, <<"x", "E", "W", "S">>, "N", 0, 70)>>

\* The optimized empty-room solution with its stay rule leading to the
\* westward state instead of the eastward one.
EMPTY_ROOM_OPTIMIZED_STAY_WEST ==
    <<Rule(0, <<"x", "*", "*", "*">>, "N", 0, 11),
      Rule(0, <<"N", "*", "*", "*">>, "X", 2, 16),
      Rule(1, <<"*", "x", "*", "*">>, "E", 1, 22),
      Rule(1, <<"*", "E", "*", "*">>, "W", 2, 25),
      Rule(2, <<"*", "*", "x", "*">>, "W", 2, 30),
      Rule(2, <<"*", "*", "W", "*">>, "S", 1, 34)>>

EMPTY_ROOM_OPTIMIZED ==
    <<Rule(0, <<"x", "*", "*", "*">>, "N", 0, 11),
      Rule(0, <<"N", "*", "*", "*">>, "X", 1, 16),
      Rule(1, <<"*", "x", "*", "*">>, "E", 1, 22),
      Rule(1, <<"*", "E", "*", "*">>, "W", 2, 25),
      Rule(2, <<"*", "*", "x", "*">>, "W", 2, 30),
      Rule(2, <<"*", "*", "W", "*">>, "S", 1, 34)>>

\* The optimized maze solution without its state-3 rule for turning East
\* where West and South are walls.
MAZE_OPTIMIZED_NO_TURN_EAST ==
    <<Rule(0, <<"*", "x", "*", "*">>, "E", 1, 16),
      Rule(0, <<"x", "E", "*", "*">>, "N", 0, 20),
      Rule(0, <<"N", "E", "*", "*">>, "X", 2, 23),
      Rule(1, <<"*", "*", "*", "x">>, "S", 3, 30),
      Rule(1, <<"*", "x", "*", "S">>, "E", 1, 33),
      Rule(1, <<"*", "E", "*", "S">>, "X", 0, 36),
      Rule(2, <<"x", "*", "*", "*">>, "N", 0, 43),
      Rule(2, <<"N", "*", "x", "*">>, "W", 2, 46),
      Rule(2, <<"N", "*", "W", "*">>, "X", 3, 49),
      Rule(3, <<"*", "*", "x", "*">>, "W", 2, 56),
      Rule(3, <<"*", "*", "W", "x">>, "S", 3, 59)>>

\* The optimized maze solution with a corridor rule that goes North wherever
\* North is open, whatever lies to the East.
MAZE_OPTIMIZED_NORTH_FIRST ==
    <<Rule(0, <<"*", "x", "*", "*">>, "E", 1, 16),
      Rule(0, <<"x", "*", "*", "*">>, "N", 0, 20),
      Rule(0, <<"N", "E", "*", "*">>, "X", 2, 23),
      Rule(1, <<"*", "*", "*", "x">>, "S", 3, 30),
      Rule(1, <<"*", "x", "*", "S">>, "E", 1, 33),
      Rule(1, <<"*", "E", "*", "S">>, "X", 0, 36),
      Rule(2, <<"x", "*", "*", "*">>, "N", 0, 43),
      Rule(2, <<"N", "*", "x", "*">>, "W", 2, 46),
      Rule(2, <<"N", "*", "W", "*">>, "X", 3, 49),
      Rule(3, <<"*", "*", "x", "*">>, "W", 2, 56),
      Rule(3, <<"*", "*", "W", "x">>, "S", 3, 59),
      Rule(3, <<"*", "*", "W", "S">>, "X", 1, 62)>>

\* The optimized maze solution with a state-2 rule that goes West without
\* looking West.
MAZE_OPTIMIZED_BLIND_WEST ==
    <<Rule(0, <<"*", "x", "*", "*">>, "E", 1, 16),
      Rule(0, <<"x", "E", "*", "*">>, "N", 0, 20),
      Rule(0, <<"N", "E", "*", "*">>, "X", 2, 23),
      Rule(1, <<"*", "*", "*", "x">>, "S", 3, 30),
      Rule(1, <<"*", "x", "*", "S">>, "E", 1, 33),
      Rule(1, <<"*", "E", "*", "S">>, "X", 0, 36),
      Rule(2, <<"x", "*", "*", "*">>, "N", 0, 43),
      Rule(2, <<"N", "*", "*", "*">>, "W", 2, 46),
      Rule(2, <<"N", "*", "W", "*">>, "X", 3, 49),
      Rule(3, <<"*", "*", "x", "*">>, "W", 2, 56),
      Rule(3, <<"*", "*", "W", "x">>, "S", 3, 59),
      Rule(3, <<"*", "*", "W", "S">>, "X", 1, 62)>>

\* The optimized maze solution with its state-0 stay rule turning to the
\* East state instead of the West state.
MAZE_OPTIMIZED_STAY_EAST ==
    <<Rule(0, <<"*", "x", "*", "*">>, "E", 1, 16),
      Rule(0, <<"x", "E", "*", "*">>, "N", 0, 20),
      Rule(0, <<"N", "E", "*", "*">>, "X", 1, 23),
      Rule(1, <<"*", "*", "*", "x">>, "S", 3, 30),
      Rule(1, <<"*", "x", "*", "S">>, "E", 1, 33),
      Rule(1, <<"*", "E", "*", "S">>, "X", 0, 36),
      Rule(2, <<"x", "*", "*", "*">>, "N", 0, 43),
      Rule(2, <<"N", "*", "x", "*">>, "W", 2, 46),
      Rule(2, <<"N", "*", "W", "*">>, "X", 3, 49),
      Rule(3, <<"*", "*", "x", "*">>, "W", 2, 56),
      Rule(3, <<"*", "*", "W", "x">>, "S", 3, 59),
      Rule(3, <<"*", "*", "W", "S">>, "X", 1, 62)>>

MAZE_OPTIMIZED ==
    <<Rule(0, <<"*", "x", "*", "*">>, "E", 1, 16),
      Rule(0, <<"x", "E", "*", "*">>, "N", 0, 20),
      Rule(0, <<"N", "E", "*", "*">>, "X", 2, 23),
      Rule(1, <<"*", "*", "*", "x">>, "S", 3, 30),
      Rule(1, <<"*", "x", "*", "S">>, "E", 1, 33),
      Rule(1, <<"*", "E", "*", "S">>, "X", 0, 36),
      Rule(2, <<"x", "*", "*", "*">>, "N", 0, 43),
      Rule(2, <<"N", "*", "x", "*">>, "W", 2, 46),
      Rule(2, <<"N", "*", "W", "*">>, "X", 3, 49),
      Rule(3, <<"*", "*", "x", "*">>, "W", 2, 56),
      Rule(3, <<"*", "*", "W", "x">>, "S", 3, 59),
      Rule(3, <<"*", "*", "W", "S">>, "X", 1, 62)>>

\* The incomplete rule set of the test_rules_all_positions docstring.
INCOMPLETE_RULES == <<Rule(0, <<"x", "*", "*", "*">>, "N", 0, 1)>>

\* One rule that fires everywhere and always moves the same way: it walks
\* into a wall (N, E, W, S) or stays put for ever (X).
AlwaysMove(direction) ==
    <<Rule(0, <<"*", "*", "*", "*">>, direction, 0, 1)>>

RuleSets ==
    {EMPTY_ROOM_INITIAL, EMPTY_ROOM_OPTIMIZED, MAZE_OPTIMIZED,
     INCOMPLETE_RULES, <<>>}
    \cup {AlwaysMove(d) : d \in DOMAIN MOVE_VECTORS}

---------------------------------------------------------------------------
(* Inputs *)

\* Every grid of at most MaxCells cells, of any shape and with any cells.
Shapes == {hw \in (1..MaxCells) \X (1..MaxCells) : hw[1] * hw[2] <= MaxCells}

Grids == UNION {[1..hw[1] -> [1..hw[2] -> {EMPTY, WALL}]] : hw \in Shapes}

Rooms == {Room(g) : g \in Grids}

\* Candidate start positions: every cell of the room and the out-of-bounds
\* coordinates next to its four edges, or None for the default.
Positions(rm) ==
    {p \in (-1..rm.height) \X (-1..rm.width) :
        p[1] \in 0..(rm.height - 1) \/ p[2] \in 0..(rm.width - 1)}

StartInputs(rm) == Positions(rm) \cup {None}

NoCall ==
    [op |-> "", start_position |-> None, max_steps |-> 0,
     stop_on_full_coverage |-> FALSE, state |-> 0, surroundings |-> None,
     grid |-> None, row |-> 0, col |-> 0, text |-> <<>>]

NoResult ==
    [success |-> FALSE, steps |-> 0, coverage |-> <<0, 0>>, visited |-> 0,
     total |-> 0, halted |-> FALSE, halt_reason |-> <<>>]

NoReport ==
    [success |-> FALSE, positions_tested |-> 0, positions_passed |-> 0,
     failures |-> <<>>, max_steps_used |-> 0, avg_steps |-> <<0, 1>>]

NoRet ==
    [raised |-> "", ok |-> FALSE, result |-> NoResult, exit |-> "",
     rule |-> None, report |-> NoReport, value |-> None, message |-> <<>>]

\* No test_rules_all_positions call is in progress.
NoFrame ==
    [pc |-> "", i |-> 0, start_pos |-> None, failures |-> <<>>,
     steps_list |-> <<>>, passed |-> 0, step |-> 0, steps_taken |-> 0]

---------------------------------------------------------------------------
(* The simulator as a state machine: one action per public operation *)

Init ==
    /\ room \in Rooms
    /\ rules \in RuleSets
    /\ constructed = FALSE
    /\ position = None
    /\ state = 0
    /\ visited = {}
    /\ history = <<>>
    /\ halted = FALSE
    /\ halt_reason = <<>>
    /\ call = NoCall
    /\ ret = NoRet
    /\ frame = NoFrame

SetSelf(self) ==
    /\ room' = self.room
    /\ rules' = self.rules
    /\ position' = self.position
    /\ state' = self.state
    /\ visited' = self.visited
    /\ history' = self.history
    /\ halted' = self.halted
    /\ halt_reason' = self.halt_reason

\* bot = Picobot(room, rules, start_position)
Construct ==
    /\ ~constructed
    /\ \E start_position \in StartInputs(room) :
          LET r == Picobot(room, rules, start_position)
          IN  /\ call' = [NoCall EXCEPT !.op = "__init__",
                                        !.start_position = start_position]
              /\ ret' = [NoRet EXCEPT !.raised = r.raised]
              /\ IF r.raised = ""
                 THEN constructed' = TRUE /\ SetSelf(r.self)
                 ELSE UNCHANGED <<room, rules, constructed, position, state,
                                  visited, history, halted, halt_reason>>
    /\ UNCHANGED frame

\* bot.reset(start_position)
Reset ==
    /\ constructed
    /\ \E start_position \in StartInputs(room) :
          LET r == reset(Self, room, start_position)
          IN  /\ call' = [NoCall EXCEPT !.op = "reset",
                                        !.start_position = start_position]
              /\ ret' = [NoRet EXCEPT !.raised = r.raised]
              /\ SetSelf(r.self)
    /\ UNCHANGED <<constructed, frame>>

\* bot.step()
Step ==
    /\ constructed
    /\ Len(history) < MaxHistory
    /\ LET r == step(Self, room, rules)
       IN  /\ call' = [NoCall EXCEPT !.op = "step"]
           /\ ret' = [NoRet EXCEPT !.ok = r.ret]
           /\ SetSelf(r.self)
    /\ UNCHANGED <<constructed, frame>>

\* bot.run(max_steps, stop_on_full_coverage)
Run ==
    /\ constructed
    /\ \E max_steps \in 0..MaxSteps, stop_on_full_coverage \in BOOLEAN :
          /\ Len(history) + max_steps <= MaxHistory
          /\ LET r == run(Self, room, rules, max_steps, stop_on_full_coverage)
             IN  /\ call' = [NoCall EXCEPT
                                !.op = "run", !.max_steps = max_steps,
                                !.stop_on_full_coverage = stop_on_full_coverage]
                 /\ ret' = [NoRet EXCEPT !.result = r.ret, !.exit = r.exit]
                 /\ SetSelf(r.self)
    /\ UNCHANGED <<constructed, frame>>

Next == Construct \/ Reset \/ Step \/ Run

Spec == Init /\ [][Next]_vars

\* The same machine without reset: an agent that is only constructed, stepped
\* and run.
NextNoReset == Construct \/ Step \/ Run

SpecNoReset == Init /\ [][NextNoReset]_vars

---------------------------------------------------------------------------
(* The rule matcher on its own: any short rule list, any query *)

\* Patterns with exact, wildcard and overlapping slots; the last one carries a
\* letter in another direction's slot, which parse_rules accepts.
MatchPatterns ==
    {<<"*", "*", "*", "*">>, <<"x", "*", "*", "*">>, <<"x", "E", "*", "*">>,
     <<"*", "*", "W", "S">>, <<"E", "*", "*", "*">>}

\* Rule lists of at most MaxRules rules, the i-th rule on line i.
MatchRuleLists ==
    UNION {{[i \in 1..n |-> Rule(f[i][1], f[i][2], "X", f[i][1], i)] :
                f \in [1..n -> (0..MaxState) \X MatchPatterns]} :
           n \in 0..MaxRules}

\* What get_surroundings can return: slot i is DIRECTIONS[i] or "x".
SurroundingsInputs ==
    {s \in [1..4 -> {"N", "E", "W", "S", "x"}] :
        \A i \in 1..4 : s[i] \in {DIRECTIONS[i], "x"}}

InitMatch ==
    /\ room = Room(<<<<EMPTY>>>>)
    /\ rules \in MatchRuleLists
    /\ constructed = FALSE
    /\ position = None
    /\ state = 0
    /\ visited = {}
    /\ history = <<>>
    /\ halted = FALSE
    /\ halt_reason = <<>>
    /\ call = NoCall
    /\ ret = NoRet
    /\ frame = NoFrame

\* bot.find_matching_rule(state, surroundings)
FindMatchingRule ==
    /\ \E st \in 0..MaxState, surroundings \in SurroundingsInputs :
          /\ call' = [NoCall EXCEPT !.op = "find_matching_rule", !.state = st,
                                    !.surroundings = surroundings]
          /\ ret' = [NoRet EXCEPT
                        !.rule = find_matching_rule(rules, st, surroundings)]
    /\ UNCHANGED <<room, rules, constructed, position, state, visited,
                   history, halted, halt_reason, frame>>

NextMatch == FindMatchingRule

SpecMatch == InitMatch /\ [][NextMatch]_vars

---------------------------------------------------------------------------
(* The matcher on the optimized maze solution, with its first two rules in *)
(* the order of the source and in the order they had before                *)

\* The rule list with its first two rules exchanged.
SwapFirstTwo(rl) == [rl EXCEPT ![1] = rl[2], ![2] = rl[1]]

\* The states a rule list mentions.
StatesOf(rl) ==
    {rl[i].state : i \in 1..Len(rl)} \cup {rl[i].new_state : i \in 1..Len(rl)}

InitOrder ==
    /\ room = Room(<<<<EMPTY>>>>)
    /\ rules \in {MAZE_OPTIMIZED, SwapFirstTwo(MAZE_OPTIMIZED)}
    /\ constructed = FALSE
    /\ position = None
    /\ state = 0
    /\ visited = {}
    /\ history = <<>>
    /\ halted = FALSE
    /\ halt_reason = <<>>
    /\ call = NoCall
    /\ ret = NoRet
    /\ frame = NoFrame

\* bot.find_matching_rule(state, surroundings), for any state of the rules
FindMatchingRuleOfStates ==
    /\ \E st \in StatesOf(rules), surroundings \in SurroundingsInputs :
          /\ call' = [NoCall EXCEPT !.op = "find_matching_rule", !.state = st,
                                    !.surroundings = surroundings]
          /\ ret' = [NoRet EXCEPT
                        !.rule = find_matching_rule(rules, st, surroundings)]
    /\ UNCHANGED <<room, rules, constructed, position, state, visited,
                   history, halted, halt_reason, frame>>

NextOrder == FindMatchingRuleOfStates

SpecOrder == InitOrder /\ [][NextOrder]_vars

---------------------------------------------------------------------------
(* The verifier on its own: any small room, any rule set, any budget *)

MaxBudget == 4

InitVerify ==
    /\ room \in Rooms
    /\ rules \in RuleSets
    /\ constructed = FALSE
    /\ position = None
    /\ state = 0
    /\ visited = {}
    /\ history = <<>>
    /\ halted = FALSE
    /\ halt_reason = <<>>
    /\ call = NoCall
    /\ ret = NoRet
    /\ frame = NoFrame

\* test_rules_all_positions(room, rules, max_steps)
TestRulesAllPositions ==
    /\ \E max_steps \in 0..MaxBudget :
          LET r == test_rules_all_positions(room, rules, max_steps)
          IN  /\ call' = [NoCall EXCEPT !.op = "test_rules_all_positions",
                                        !.max_steps = max_steps]
              /\ ret' = [NoRet EXCEPT !.raised = r.raised,
                                      !.report = r.report]
    /\ UNCHANGED <<room, rules, constructed, position, state, visited,
                   history, halted, halt_reason, frame>>

NextVerify == TestRulesAllPositions

SpecVerify == InitVerify /\ [][NextVerify]_vars

---------------------------------------------------------------------------
(* test_rules_all_positions step by step, one statement of its loop and    *)
(* one iteration of the run loop at a time, for the solutions and the      *)
(* rooms they are written for                                              *)

\* The step budget handed to run and to test_rules_all_positions.
MaxTrace == 70

\* The largest height and width of the empty rooms.
MaxSide == 6

InitSolution(rooms, rule_sets) ==
    /\ room \in rooms
    /\ rules \in rule_sets
    /\ constructed = FALSE
    /\ position = None
    /\ state = 0
    /\ visited = {}
    /\ history = <<>>
    /\ halted = FALSE
    /\ halt_reason = <<>>
    /\ call = NoCall
    /\ ret = NoRet
    /\ frame = NoFrame

\* test_rules_all_positions(room, rules, max_steps=MaxTrace) is entered.
VerifyCall ==
    /\ call.op = ""
    /\ frame.pc = ""
    /\ call' = [NoCall EXCEPT !.op = "test_rules_all_positions",
                              !.max_steps = MaxTrace]
    /\ frame' = [NoFrame EXCEPT !.pc = "for"]
    /\ UNCHANGED <<room, rules, constructed, position, state, visited,
                   history, halted, halt_reason, ret>>

\* The verifier's loop takes the next start position, builds a fresh Picobot
\* there and enters bot.run(max_steps) with steps_taken = 0.
VerifyBot ==
    /\ frame.pc = "for"
    /\ frame.i < Len(get_empty_cells(room))
    /\ LET start_pos == get_empty_cells(room)[frame.i + 1]
           bot == Picobot(room, rules, start_pos)
       IN  IF bot.raised = ""
           THEN /\ constructed' = TRUE
                /\ SetSelf(bot.self)
                /\ frame' = [frame EXCEPT !.pc = "run", !.start_pos = start_pos,
                                          !.step = 0, !.steps_taken = 0]
                /\ ret' = NoRet
           ELSE /\ frame' = [frame EXCEPT !.pc = "done"]
                /\ ret' = [NoRet EXCEPT !.raised = bot.raised]
                /\ UNCHANGED <<room, rules, constructed, position, state,
                               visited, history, halted, halt_reason>>
    /\ UNCHANGED call

\* The loop of run is left: the result dictionary is compiled and returned.
RunReturn(self, total_empty, steps_taken, exit) ==
    /\ SetSelf(self)
    /\ frame' = [frame EXCEPT !.pc = "result", !.steps_taken = steps_taken]
    /\ ret' = [NoRet EXCEPT
                  !.result = RunResult(self, total_empty, steps_taken),
                  !.exit = exit]

\* One iteration of the for loop of Picobot.run, called with the default
\* stop_on_full_coverage = True; frame.step is the loop variable.
RunIterate ==
    /\ frame.pc = "run"
    /\ LET total_empty == count_empty_cells(room)
       IN  IF frame.step >= call.max_steps
           THEN RunReturn(Self, total_empty, frame.steps_taken, "exhausted")
           ELSE IF Cardinality(visited) >= total_empty
           THEN RunReturn(Self, total_empty, frame.steps_taken, "coverage")
           ELSE LET s == step(Self, room, rules)
                IN  IF ~s.ret
                    THEN RunReturn(s.self, total_empty, frame.step + 1,
                                   "halted")
                    ELSE /\ SetSelf(s.self)
                         /\ frame' = [frame EXCEPT
                                         !.step = @ + 1,
                                         !.steps_taken = frame.step + 1]
                         /\ UNCHANGED ret
    /\ UNCHANGED <<constructed, call>>

\* The verifier files the result of the run under passed or under failures.
VerifyRecord ==
    /\ frame.pc = "result"
    /\ frame' =
          IF ret.result.success
          THEN [frame EXCEPT !.pc = "for", !.i = @ + 1, !.passed = @ + 1,
                             !.steps_list = Append(@, ret.result.steps)]
          ELSE [frame EXCEPT !.pc = "for", !.i = @ + 1,
                             !.failures =
                                 Append(@, <<frame.start_pos, ret.result>>)]
    /\ UNCHANGED <<room, rules, constructed, position, state, visited,
                   history, halted, halt_reason, call, ret>>

\* Every start position has been tested: the verifier returns its report.
VerifyReturn ==
    /\ frame.pc = "for"
    /\ frame.i >= Len(get_empty_cells(room))
    /\ frame' = [frame EXCEPT !.pc = "done"]
    /\ ret' = [NoRet EXCEPT
                  !.report = Report(get_empty_cells(room), frame.failures,
                                    frame.steps_list, frame.passed)]
    /\ UNCHANGED <<room, rules, constructed, position, state, visited,
                   history, halted, halt_reason, call>>

NextSolution ==
    VerifyCall \/ VerifyBot \/ RunIterate \/ VerifyRecord \/ VerifyReturn

\* The verifier is sequential code without suspension points: whatever
\* statement comes next is executed.
FairSolution == WF_vars(NextSolution)

\* The two empty-room solutions on the 5x5 empty room.
InitSweep5 ==
    InitSolution({create_empty_room(5, 5).room},
                 {EMPTY_ROOM_INITIAL, EMPTY_ROOM_OPTIMIZED})

SpecSweep5 == InitSweep5 /\ [][NextSolution]_vars /\ FairSolution

\* The initial empty-room solution on every empty room of up to MaxSide rows
\* and columns.
InitSweepAll ==
    InitSolution({create_empty_room(h, w).room : h, w \in 3..MaxSide},
                 {EMPTY_ROOM_INITIAL})

SpecSweepAll == InitSweepAll /\ [][NextSolution]_vars /\ FairSolution

\* The initial maze solution on the small maze.
InitMazeInitial == InitSolution({create_small_maze.room}, {MAZE_INITIAL})

SpecMazeInitial == InitMazeInitial /\ [][NextSolution]_vars /\ FairSolution

\* The optimized maze solution on the small maze.
InitMazeOptimized == InitSolution({create_small_maze.room}, {MAZE_OPTIMIZED})

SpecMazeOptimized == InitMazeOptimized /\ [][NextSolution]_vars /\ FairSolution

---------------------------------------------------------------------------
(* A caller that either builds an agent and steps and runs it, or hands    *)
(* room and rules to test_rules_all_positions                              *)

NextOperations ==
    \/ (frame.pc = "" /\ Construct)
    \/ (frame.pc = "" /\ Step)
    \/ (frame.pc = "" /\ Run)
    \/ VerifyCall
    \/ VerifyBot
    \/ RunIterate
    \/ VerifyRecord
    \/ VerifyReturn

SpecOperations == Init /\ [][NextOperations]_vars

---------------------------------------------------------------------------
(* An optimized solution stepped on its own, from any start of any small   *)
(* grid, of the empty rooms and of the small maze                          *)

CompareRooms ==
    Rooms
    \cup {create_empty_room(h, w).room : h, w \in 3..MaxSide}
    \cup {create_small_maze.room}

InitCompareEmpty == InitSolution(CompareRooms, {EMPTY_ROOM_OPTIMIZED})

InitCompareMaze == InitSolution(CompareRooms, {MAZE_OPTIMIZED})

\* bot.step(), as often as the trace bound allows
StepWithinTrace ==
    /\ constructed
    /\ Len(history) < MaxTrace
    /\ LET r == step(Self, room, rules)
       IN  /\ call' = [NoCall EXCEPT !.op = "step"]
           /\ ret' = [NoRet EXCEPT !.ok = r.ret]
           /\ SetSelf(r.self)
    /\ UNCHANGED <<constructed, frame>>

NextCompare == Construct \/ StepWithinTrace

SpecCompareEmpty == InitCompareEmpty /\ [][NextCompare]_vars

SpecCompareMaze == InitCompareMaze /\ [][NextCompare]_vars

---------------------------------------------------------------------------
(* The room on its own: construction from any list of rows, its accessors  *)
(* at any coordinate, and the agent's default start position               *)

MaxRawRows == 2
MaxRawCols == 2

\* Rows of 0 to MaxRawCols cells.
RawRows == UNION {[1..n -> {EMPTY, WALL}] : n \in 0..MaxRawCols}

\* Lists of 0 to MaxRawRows rows, of equal lengths or not.
RawGrids == UNION {[1..n -> RawRows] : n \in 0..MaxRawRows}

\* Coordinates in the grid and up to two cells outside of it.  The room is
\* queried before an agent is placed in it: the queries leave it unchanged.
Coordinates == (-2..(MaxRawRows + 1)) \X (-2..(MaxRawCols + 1))

InitRoom ==
    /\ room = None
    /\ rules = <<>>
    /\ constructed = FALSE
    /\ position = None
    /\ state = 0
    /\ visited = {}
    /\ history = <<>>
    /\ halted = FALSE
    /\ halt_reason = <<>>
    /\ call = NoCall
    /\ ret = NoRet
    /\ frame = NoFrame

\* room = Room(grid)
NewRoom ==
    /\ room = None
    /\ \E grid \in RawGrids :
          LET r == Room_init(grid)
          IN  /\ call' = [NoCall EXCEPT !.op = "Room", !.grid = grid]
              /\ ret' = [NoRet EXCEPT !.raised = r.raised]
              /\ room' = IF r.raised = "" THEN r.room ELSE room
    /\ UNCHANGED <<rules, constructed, position, state, visited, history,
                   halted, halt_reason, frame>>

\* room.is_wall(row, col)
IsWall ==
    /\ room # None
    /\ ~constructed
    /\ \E rc \in Coordinates :
          /\ call' = [NoCall EXCEPT !.op = "is_wall", !.row = rc[1],
                                    !.col = rc[2]]
          /\ ret' = [NoRet EXCEPT !.value = is_wall(room, rc[1], rc[2])]
    /\ UNCHANGED <<room, rules, constructed, position, state, visited,
                   history, halted, halt_reason, frame>>

\* room.is_empty(row, col)
IsEmpty ==
    /\ room # None
    /\ ~constructed
    /\ \E rc \in Coordinates :
          /\ call' = [NoCall EXCEPT !.op = "is_empty", !.row = rc[1],
                                    !.col = rc[2]]
          /\ ret' = [NoRet EXCEPT !.value = is_empty(room, rc[1], rc[2])]
    /\ UNCHANGED <<room, rules, constructed, position, state, visited,
                   history, halted, halt_reason, frame>>

\* room.get_empty_cells()
GetEmptyCells ==
    /\ room # None
    /\ ~constructed
    /\ call' = [NoCall EXCEPT !.op = "get_empty_cells"]
    /\ ret' = [NoRet EXCEPT !.value = get_empty_cells(room)]
    /\ UNCHANGED <<room, rules, constructed, position, state, visited,
                   history, halted, halt_reason, frame>>

\* room.count_empty_cells()
CountEmptyCells ==
    /\ room # None
    /\ ~constructed
    /\ call' = [NoCall EXCEPT !.op = "count_empty_cells"]
    /\ ret' = [NoRet EXCEPT !.value = count_empty_cells(room)]
    /\ UNCHANGED <<room, rules, constructed, position, state, visited,
                   history, halted, halt_reason, frame>>

\* bot = Picobot(room, rules), without start position
ConstructDefault ==
    /\ room # None
    /\ ~constructed
    /\ LET r == Picobot(room, rules, None)
       IN  /\ call' = [NoCall EXCEPT !.op = "__init__"]
           /\ ret' = [NoRet EXCEPT !.raised = r.raised]
           /\ IF r.raised = ""
              THEN constructed' = TRUE /\ SetSelf(r.self)
              ELSE UNCHANGED <<room, rules, constructed, position, state,
                               visited, history, halted, halt_reason>>
    /\ UNCHANGED frame

NextRoom ==
    \/ NewRoom
    \/ IsWall
    \/ IsEmpty
    \/ GetEmptyCells
    \/ CountEmptyCells
    \/ ConstructDefault
    \/ (room # None /\ Reset)

SpecRoom == InitRoom /\ [][NextRoom]_vars

---------------------------------------------------------------------------
(* Rule texts: parsing, and rendering the parsed rules to parse them again *)

MaxLines == 2

\* Spellings of the parts of a rule line, each with what it stands for: ok
\* tells whether the part has the shape the rule syntax asks for.
StateSamples ==
    {[text |-> <<"0">>, value |-> 0],
     [text |-> <<"0", "7">>, value |-> 7],
     [text |-> <<"9", "9">>, value |-> 99],
     [text |-> <<"1", "0", "0">>, value |-> 100]}

PatternSamples ==
    {[text |-> <<"x", "*", "*", "*">>, ok |-> TRUE, slots |-> <<"x", "*", "*", "*">>],
     [text |-> <<"N", "e", "W", "s">>, ok |-> TRUE, slots |-> <<"N", "E", "W", "S">>],
     [text |-> <<"X", "x", "*", "S">>, ok |-> TRUE, slots |-> <<"x", "x", "*", "S">>],
     [text |-> <<"E", "*", "*", "*">>, ok |-> TRUE, slots |-> <<"E", "*", "*", "*">>],
     [text |-> <<"x", "*", "*">>, ok |-> FALSE, slots |-> <<>>],
     [text |-> <<"x", "*", ".", "*">>, ok |-> FALSE, slots |-> <<>>]}

ArrowSamples ==
    {[text |-> <<" ", "-", ">", " ">>, ok |-> TRUE],
     [text |-> <<"-", ">">>, ok |-> TRUE],
     [text |-> <<"\t", "-", ">", " ", " ">>, ok |-> TRUE],
     [text |-> <<" ", "-", " ", ">", " ">>, ok |-> FALSE]}

DirectionSamples ==
    {[text |-> <<"N">>, ok |-> TRUE, value |-> "N"],
     [text |-> <<"s">>, ok |-> TRUE, value |-> "S"],
     [text |-> <<"x">>, ok |-> TRUE, value |-> "X"],
     [text |-> <<"*">>, ok |-> FALSE, value |-> ""]}

GapSamples ==
    {[text |-> <<" ">>, ok |-> TRUE],
     [text |-> <<" ", "\t">>, ok |-> TRUE],
     [text |-> <<>>, ok |-> FALSE]}

TailSamples == {<<>>, <<" ">>, <<" ", "#", " ", "1", " ", "x">>, <<"#">>}

LeadSamples == {<<>>, <<" ", " ">>}

\* A rule line spelled from its parts, with the rule it stands for.
LineSample(lead, st, g1, pat, ar, dir, g2, ns, tail) ==
    [text |-> lead \o st.text \o g1.text \o pat.text \o ar.text \o dir.text
              \o g2.text \o ns.text \o tail,
     kind |-> IF g1.ok /\ pat.ok /\ ar.ok /\ dir.ok /\ g2.ok
              THEN "rule" ELSE "malformed",
     state |-> st.value, slots |-> pat.slots, direction |-> dir.value,
     new_state |-> ns.value]

BlankSample(text) ==
    [text |-> text, kind |-> "blank", state |-> 0, slots |-> <<>>,
     direction |-> "", new_state |-> 0]

BaseState == [text |-> <<"0">>, value |-> 0]
BaseGap == [text |-> <<" ">>, ok |-> TRUE]
BasePattern == [text |-> <<"x", "*", "*", "*">>, ok |-> TRUE, slots |-> <<"x", "*", "*", "*">>]
BaseArrow == [text |-> <<" ", "-", ">", " ">>, ok |-> TRUE]
BaseDirection == [text |-> <<"N">>, ok |-> TRUE, value |-> "N"]

\* The lines a rule text is made of: the line 0 x*** -> N 0 with one of its
\* parts spelled differently, three lines with two faults each, and lines
\* without a rule.
LineSamples ==
    {LineSample(<<>>, st, BaseGap, BasePattern, BaseArrow, BaseDirection, BaseGap, BaseState, <<>>) :
        st \in StateSamples}
    \cup {LineSample(<<>>, BaseState, BaseGap, BasePattern, BaseArrow, BaseDirection, BaseGap, ns, <<>>) :
        ns \in StateSamples}
    \cup {LineSample(<<>>, BaseState, BaseGap, pat, BaseArrow, BaseDirection, BaseGap, BaseState, <<>>) :
        pat \in PatternSamples}
    \cup {LineSample(<<>>, BaseState, BaseGap, BasePattern, BaseArrow, dir, BaseGap, BaseState, <<>>) :
        dir \in DirectionSamples}
    \cup {LineSample(<<>>, BaseState, g1, BasePattern, BaseArrow, BaseDirection, BaseGap, BaseState, <<>>) :
        g1 \in GapSamples}
    \cup {LineSample(<<>>, BaseState, BaseGap, BasePattern, ar, BaseDirection, BaseGap, BaseState, <<>>) :
        ar \in ArrowSamples}
    \cup {LineSample(<<>>, BaseState, BaseGap, BasePattern, BaseArrow, BaseDirection, g2, BaseState, <<>>) :
        g2 \in GapSamples}
    \cup {LineSample(lead, BaseState, BaseGap, BasePattern, BaseArrow, BaseDirection, BaseGap, BaseState, <<>>) :
        lead \in LeadSamples}
    \cup {LineSample(<<>>, BaseState, BaseGap, BasePattern, BaseArrow, BaseDirection, BaseGap, BaseState, tail) :
        tail \in TailSamples}
    \cup {LineSample(<<>>, st, BaseGap, BasePattern, BaseArrow, BaseDirection, BaseGap, st, <<>>) :
        st \in {s \in StateSamples : s.value \in {7, 100}}}
    \cup {LineSample(<<>>, st, BaseGap, pat, BaseArrow, BaseDirection, BaseGap, BaseState, <<>>) :
        st \in {s \in StateSamples : s.value = 100},
        pat \in {q \in PatternSamples : ~q.ok}}
    \cup {BlankSample(text) : text \in {<<>>, <<" ", "\t">>, <<"#", "0", " ", "x">>, <<" ", "#">>}}

\* '\n'.join(lines)
RECURSIVE Join(_)
Join(lines) ==
    IF Len(lines) = 0 THEN <<>>
    ELSE IF Len(lines) = 1 THEN lines[1]
    ELSE lines[1] \o <<"\n">> \o Join(Tail(lines))

\* Texts of up to MaxLines sample lines, and the same texts with a
\* comment-only line after their first line.
RuleTexts ==
    LET Texts == UNION {[1..n -> {m.text : m \in LineSamples}] : n \in 1..MaxLines}
    IN  {Join(ls) : ls \in Texts}
        \cup {Join(<<ls[1], <<"#", "0", " ", "x">>>> \o Tail(ls)) : ls \in Texts}

InitParse ==
    /\ room = None
    /\ rules = <<>>
    /\ constructed = FALSE
    /\ position = None
    /\ state = 0
    /\ visited = {}
    /\ history = <<>>
    /\ halted = FALSE
    /\ halt_reason = <<>>
    /\ call = NoCall
    /\ ret = NoRet
    /\ frame = NoFrame

\* rules = parse_rules(rules_text)
ParseRules ==
    /\ call.op = ""
    /\ \E rules_text \in RuleTexts :
          LET r == parse_rules(rules_text)
          IN  /\ call' = [NoCall EXCEPT !.op = "parse_rules", !.text = rules_text]
              /\ ret' = [NoRet EXCEPT !.raised = r.raised,
                                      !.message = r.message,
                                      !.value = r.rules]
              /\ rules' = IF r.raised = "" THEN r.rules ELSE rules
    /\ UNCHANGED <<room, constructed, position, state, visited, history,
                   halted, halt_reason, frame>>

\* parse_rules('\n'.join(str(rule) for rule in rules))
ParseRendered ==
    /\ call.op = "parse_rules"
    /\ ret.raised = ""
    /\ LET rules_text == Join([i \in 1..Len(rules) |-> Rule_str(rules[i])])
           r == parse_rules(rules_text)
       IN  /\ call' = [NoCall EXCEPT !.op = "parse_rules", !.text = rules_text]
           /\ ret' = [NoRet EXCEPT !.raised = r.raised,
                                   !.message = r.message,
                                   !.value = r.rules]
    /\ UNCHANGED <<room, rules, constructed, position, state, visited,
                   history, halted, halt_reason, frame>>

NextParse ==
    \/ ParseRules
    \/ ParseRendered

SpecParse == InitParse /\ [][NextParse]_vars

---------------------------------------------------------------------------
(* Vocabulary of the properties, stated independently of the operators     *)
(* above                                                                   *)

InBounds(p) ==
    /\ p[1] >= 0 /\ p[1] < room.height
    /\ p[2] >= 0 /\ p[2] < room.width

\* p is a cell of the grid and that cell is open.
OpenCell(p) == InBounds(p) /\ room.grid[p[1] + 1][p[2] + 1] = EMPTY

OpenCells == {p \in (0..(room.height - 1)) \X (0..(room.width - 1)) : OpenCell(p)}

Letter == <<"N", "E", "W", "S">>

\* (row, col) deltas of the four NEWS directions and of the stay direction.
Delta(d) ==
    CASE d = "N" -> <<-1, 0>>
      [] d = "E" -> <<0, 1>>
      [] d = "W" -> <<0, -1>>
      [] d = "S" -> <<1, 0>>
      [] d = "X" -> <<0, 0>>

Target(p, d) == <<p[1] + Delta(d)[1], p[2] + Delta(d)[2]>>

\* The pattern an agent standing on p observes.
Observed(p) ==
    [i \in 1..4 |-> IF OpenCell(Target(p, Letter[i])) THEN "x" ELSE Letter[i]]

\* A rule applies to (st, pattern): same state, and every slot is the wildcard
\* or the observed slot.
Applies(rule, st, pattern) ==
    /\ rule.state = st
    /\ \A i \in 1..4 : rule.surroundings_pattern[i] \in {"*", pattern[i]}

Applicable(st, pattern) ==
    {i \in 1..Len(rules) : Applies(rules[i], st, pattern)}

First(S) == CHOOSE i \in S : \A j \in S : i <= j

Last(seq) == seq[Len(seq)]

---------------------------------------------------------------------------
(* C1 *)

\* C1: find_matching_rule(state, surroundings) returns the rule of smallest
\* index among the rules that apply to (state, surroundings), and None iff no
\* rule applies; of two applicable rules the earlier one is returned.
C1_FirstMatchWins ==
    call.op = "find_matching_rule" =>
        LET S == Applicable(call.state, call.surroundings)
        IN  IF S = {} THEN ret.rule = None
            ELSE /\ ret.rule # None
                 /\ ret.rule = <<rules[First(S)]>>
                 /\ \A j \in S : j # First(S) => ret.rule # <<rules[j]>>

\* Two rules apply to the query and the earlier one came back.
C1_Witness ==
    /\ call.op = "find_matching_rule"
    /\ \E i, j \in Applicable(call.state, call.surroundings) :
          i < j /\ ret.rule = <<rules[i]>>

---------------------------------------------------------------------------
(* C2 *)

\* C2: without reset, an agent constructed at a legal start is always on an
\* open in-bounds cell, its visited set holds open in-bounds cells only, and a
\* step whose rule points at a wall or out of bounds left the agent where it
\* was.
C2_NeverOnWall ==
    constructed =>
        /\ OpenCell(position)
        /\ \A p \in visited : OpenCell(p)
        /\ \A i \in 1..Len(history) :
              LET rec == history[i]
              IN  (/\ rec.rule_applied # None
                   /\ ~OpenCell(Target(rec.position,
                                       rec.rule_applied[1].direction)))
                  => /\ rec.new_position = rec.position
                     /\ i = Len(history)
                     /\ position = rec.position

\* A rule pointed at a wall and the agent is still on its open cell.
C2_Witness ==
    /\ constructed
    /\ history # <<>>
    /\ Last(history).rule_applied # None
    /\ ~OpenCell(Target(Last(history).position,
                        Last(history).rule_applied[1].direction))
    /\ OpenCell(position)
    /\ Cardinality(visited) >= 2

---------------------------------------------------------------------------
(* C3 *)

\* C3: the constructor and reset both refuse a start position that is a wall
\* or out of bounds, so that the agent's position is an open cell after any
\* sequence of construct, reset, step and run.
C3_StartAlwaysLegal ==
    /\ (/\ call.op \in {"__init__", "reset"}
        /\ call.start_position # None
        /\ ~OpenCell(call.start_position))
       => ret.raised = "ValueError"
    /\ constructed => OpenCell(position)

---------------------------------------------------------------------------
(* C4, C5, C6: the three outcomes of one step() call.  A transition whose  *)
(* resulting call is "step" is one made by Step.                           *)

\* The rule that first-match-wins selects for the agent as it stands, as
\* <<rule>>, or None.
Selected ==
    LET S == Applicable(state, Observed(position))
    IN  IF S = {} THEN None ELSE <<rules[First(S)]>>

StepCalled == call'.op = "step" /\ ~halted

\* C4: a step() on a non-halted agent for which no rule applies halts with a
\* "no rule matches" reason, leaves position, state and visited unchanged,
\* appends exactly one record with no rule and post-values equal to the
\* pre-step values, and returns False without raising.
C4_NoRuleHalts ==
    [][(StepCalled /\ Selected = None) =>
        /\ halted'
        /\ halt_reason' # <<>>
        /\ halt_reason'[1] = "No rule matches state"
        /\ position' = position /\ state' = state /\ visited' = visited
        /\ Len(history') = Len(history) + 1
        /\ SubSeq(history', 1, Len(history)) = history
        /\ Last(history').rule_applied = None
        /\ Last(history').position = position
        /\ Last(history').state = state
        /\ Last(history').new_position = position
        /\ Last(history').new_state = state
        /\ ret'.ok = FALSE /\ ret'.raised = ""]_vars

\* A step() has just halted the agent for want of a rule.
C4_Witness ==
    /\ call.op = "step"
    /\ halted
    /\ halt_reason[1] = "No rule matches state"
    /\ Last(history).rule_applied = None
    /\ Applicable(state, Observed(position)) = {}
    /\ Len(history) >= 2

\* C5: a step() on a non-halted agent whose selected rule leads to a wall or
\* out of bounds halts with a reason other than the no-rule reason, leaves
\* position, state (the rule's new_state is not applied) and visited
\* unchanged, appends exactly one record carrying the rule with post-values
\* equal to the pre-step values, and returns False without raising.
C5_IllegalMoveHalts ==
    [][(/\ StepCalled
        /\ Selected # None
        /\ ~OpenCell(Target(position, Selected[1].direction))) =>
        /\ halted'
        /\ halt_reason' # <<>>
        /\ halt_reason'[1] # "No rule matches state"
        /\ position' = position /\ state' = state /\ visited' = visited
        /\ Len(history') = Len(history) + 1
        /\ SubSeq(history', 1, Len(history)) = history
        /\ Last(history').rule_applied = Selected
        /\ Last(history').position = position
        /\ Last(history').state = state
        /\ Last(history').new_position = position
        /\ Last(history').new_state = state
        /\ ret'.ok = FALSE /\ ret'.raised = ""]_vars

\* A step() has just halted the agent on an illegal move whose rule names
\* another state.
C5_Witness ==
    /\ call.op = "step"
    /\ halted
    /\ Last(history).rule_applied # None
    /\ Last(history).rule_applied[1].new_state # state
    /\ OpenCell(position)
    /\ ~OpenCell(Target(position, Last(history).rule_applied[1].direction))

\* C6: a step() on a non-halted agent whose selected rule leads to an open
\* cell moves the agent by the direction vector (N = (-1, 0), E = (0, +1),
\* W = (0, -1), S = (+1, 0), stay = (0, 0)), takes the rule's new_state, adds
\* the new position to visited, appends one record with the pre- and
\* post-values, leaves halted false and returns True.
C6_LegalMoveCommits ==
    [][(/\ StepCalled
        /\ Selected # None
        /\ OpenCell(Target(position, Selected[1].direction))) =>
        /\ position' = Target(position, Selected[1].direction)
        /\ state' = Selected[1].new_state
        /\ visited' = visited \cup {position'}
        /\ Len(history') = Len(history) + 1
        /\ SubSeq(history', 1, Len(history)) = history
        /\ Last(history').rule_applied = Selected
        /\ Last(history').position = position
        /\ Last(history').state = state
        /\ Last(history').new_position = position'
        /\ Last(history').new_state = state'
        /\ ~halted' /\ halt_reason' = <<>>
        /\ ret'.ok = TRUE /\ ret'.raised = ""]_vars

\* Steps have moved the agent North or South and then East or West.
C6_Witness ==
    /\ call.op = "step"
    /\ ret.ok
    /\ Len(history) >= 2
    /\ history[1].rule_applied[1].direction \in {"N", "S"}
    /\ history[1].new_position = Target(history[1].position,
                                        history[1].rule_applied[1].direction)
    /\ history[2].rule_applied[1].direction \in {"E", "W"}
    /\ position = Target(history[2].position,
                         history[2].rule_applied[1].direction)
    /\ Cardinality(visited) = 3

---------------------------------------------------------------------------
(* C7 *)

\* C7: every recorded step carries the 4-slot NEWS pattern observed at its
\* pre-step position (slot d is d's letter iff the neighbour in direction d is
\* a wall or out of bounds, the open marker otherwise) and the rule that
\* first-match-wins selects for that pattern and the pre-step state; the first
\* record a call appends is taken at the agent's position and state.
C7_SurroundingsObserved ==
    /\ [](\A i \in 1..Len(history) :
            LET rec == history[i]
                S == Applicable(rec.state, Observed(rec.position))
            IN  /\ Len(rec.surroundings) = 4
                /\ rec.surroundings = Observed(rec.position)
                /\ rec.rule_applied =
                       IF S = {} THEN None ELSE <<rules[First(S)]>>)
    /\ [][Len(history') > Len(history) =>
            /\ history'[Len(history) + 1].position = position
            /\ history'[Len(history) + 1].state = state]_vars

\* A step was taken where one neighbour is a wall or out of bounds and
\* another is open.
C7_Witness ==
    /\ history # <<>>
    /\ \E i, j \in 1..4 :
          /\ Last(history).surroundings[i] = "x"
          /\ Last(history).surroundings[j] = Letter[j]
          /\ i < j
    /\ \E i, j \in 1..4 :
          /\ Last(history).surroundings[i] = "x"
          /\ Last(history).surroundings[j] = Letter[j]
          /\ i > j

---------------------------------------------------------------------------
(* C8 *)

\* The coverage test of the code: at least as many visited cells as open cells.
Covered(v) == Cardinality(v) >= Cardinality(OpenCells)

\* C8 as stated: run's success is true iff the visited cells are at least as
\* many as the open cells at return time, whatever the halted flag; and a run
\* that exhausted max_steps without coverage is a failure with halted = false.
C8_SuccessIsCoverage ==
    call.op = "run" =>
        /\ ret.result.success <=> Covered(visited)
        /\ (ret.result.halted /\ Covered(visited)) => ret.result.success
        /\ (ret.exit = "exhausted" /\ ~Covered(visited)) =>
              ~ret.result.success /\ ~ret.result.halted

\* C8 as amended: the same, except that a run that exhausted max_steps without
\* coverage reports the halted flag the agent had when run was called, which
\* is false unless the agent was already halted.
C8_SuccessIsCoverageAmended ==
    [][call'.op = "run" =>
        /\ ret'.result.success <=> Covered(visited')
        /\ (ret'.result.halted /\ Covered(visited')) => ret'.result.success
        /\ (ret'.exit = "exhausted" /\ ~Covered(visited')) =>
              /\ ~ret'.result.success
              /\ ret'.result.halted = halted
              /\ ret'.result.halted => call'.max_steps = 0]_vars

\* A run went on after coverage, halted, and is reported as a success.
C8_Witness ==
    /\ call.op = "run"
    /\ ret.result.success
    /\ ret.result.halted
    /\ ret.result.steps >= 1
    /\ ret.exit = "halted"

---------------------------------------------------------------------------
(* C9 *)

\* C9: whenever is_complete() is true or run reports success, every open cell
\* of the grid is in visited, in every state reachable through the
\* constructor, reset, step and run.
C9_SuccessMeansCovered ==
    constructed =>
        /\ is_complete(Self, room) => OpenCells \subseteq visited
        /\ (call.op = "run" /\ ret.result.success) => OpenCells \subseteq visited

---------------------------------------------------------------------------
(* C10 *)

\* The visited set after the first k of the records a call appended.
VisitedAfter(k) ==
    visited \cup {history'[Len(history) + j].new_position : j \in 1..k}

\* C10: a run with stop_on_full_coverage takes no step from an iteration
\* boundary at which the visited cells already are as many as the open cells:
\* every record it appends was taken with coverage incomplete, none follows
\* the boundary at which coverage is first complete, and a successful run
\* reports as steps the number of steps that first reached coverage (0, with
\* the agent untouched, if coverage was complete at the call).
C10_StopsAtCoverage ==
    [][(call'.op = "run" /\ call'.stop_on_full_coverage) =>
        LET n == Len(history') - Len(history)
        IN  /\ n >= 0
            /\ \A k \in 0..(n - 1) : ~Covered(VisitedAfter(k))
            /\ visited' = VisitedAfter(n)
            /\ ret'.result.success =>
                  /\ ret'.result.steps = n
                  /\ Covered(VisitedAfter(n))
                  /\ \A k \in 0..(n - 1) : ~Covered(VisitedAfter(k))
            /\ Covered(visited) =>
                  /\ ret'.result.steps = 0
                  /\ ret'.exit = "coverage" \/ call'.max_steps = 0
                  /\ UNCHANGED <<position, state, visited, history, halted,
                                 halt_reason>>]_vars

\* A run reached coverage after one or more steps and stopped with part of
\* its budget unused.
C10_Witness ==
    /\ call.op = "run"
    /\ call.stop_on_full_coverage
    /\ ret.exit = "coverage"
    /\ ret.result.steps >= 1
    /\ ret.result.steps < call.max_steps
    /\ ret.result.success

---------------------------------------------------------------------------
(* C11 *)

\* C11: every run(max_steps) call with a budget max_steps >= 0 returns, having
\* made at most max_steps step calls whatever the rule set (each call on a
\* non-halted agent appends one record, so at most max_steps records are
\* appended); the steps it reports never exceed max_steps; and with
\* max_steps = 0 no step is taken and the agent is unchanged.
C11_RunBounded ==
    [][call'.op = "run" =>
        LET n == Len(history') - Len(history)
        IN  /\ ret'.raised = ""
            /\ ret'.exit \in {"exhausted", "coverage", "halted"}
            /\ n >= 0 /\ n <= call'.max_steps
            /\ SubSeq(history', 1, Len(history)) = history
            /\ ret'.result.steps >= 0
            /\ ret'.result.steps <= call'.max_steps
            /\ ~halted => ret'.result.steps = n
            /\ halted => n = 0
            /\ call'.max_steps = 0 =>
                  /\ ret'.result.steps = 0
                  /\ UNCHANGED <<position, state, visited, history, halted,
                                 halt_reason>>]_vars

\* A rule set that stays put for ever was run; the run used its whole budget
\* of two or more steps and returned without coverage and without a halt.
C11_Witness ==
    /\ call.op = "run"
    /\ rules = AlwaysMove("X")
    /\ call.max_steps >= 2
    /\ ret.exit = "exhausted"
    /\ ret.result.steps = call.max_steps
    /\ ~ret.result.success
    /\ ~ret.result.halted

---------------------------------------------------------------------------
(* C12 *)

\* An agent as the constructor leaves it at start position p.
FreshAt(p) ==
    [position |-> p, state |-> 0, visited |-> {p}, history |-> <<>>,
     halted |-> FALSE, halt_reason |-> <<>>]

\* What run(max_steps) returns for a fresh agent started at p.
FreshRun(p, max_steps) == run(FreshAt(p), room, rules, max_steps, TRUE).ret

\* p comes before q in row-major order.
RowMajorBefore(p, q) == p[1] < q[1] \/ (p[1] = q[1] /\ p[2] < q[2])

\* C12: test_rules_all_positions(grid, rules, max_steps) tests the open cells
\* of the grid, each once: failures holds, in row-major order and each with
\* its run result, exactly the open cells from which a fresh agent (state 0,
\* visited = {cell}) does not succeed in run(max_steps); positions_tested is
\* the number of open cells, positions_passed + |failures| = positions_tested,
\* and success is true iff every open starting cell succeeds.
C12_VerifierTestsOpenCells ==
    call.op = "test_rules_all_positions" =>
        LET rep == ret.report
            n == Len(rep.failures)
        IN  /\ ret.raised = ""
            /\ {rep.failures[i][1] : i \in 1..n} =
                   {p \in OpenCells : ~FreshRun(p, call.max_steps).success}
            /\ \A i \in 1..n :
                  rep.failures[i][2] =
                      FreshRun(rep.failures[i][1], call.max_steps)
            /\ \A i, j \in 1..n :
                  i < j => RowMajorBefore(rep.failures[i][1], rep.failures[j][1])
            /\ rep.positions_tested = Cardinality(OpenCells)
            /\ rep.positions_passed + n = rep.positions_tested
            /\ rep.positions_passed =
                   Cardinality({p \in OpenCells :
                                   FreshRun(p, call.max_steps).success})
            /\ rep.success <=>
                   \A p \in OpenCells : FreshRun(p, call.max_steps).success

\* The verifier passed a starting cell and failed two others of different
\* rows.
C12_Witness ==
    /\ call.op = "test_rules_all_positions"
    /\ ret.report.positions_passed >= 1
    /\ ~ret.report.success
    /\ \E i, j \in 1..Len(ret.report.failures) :
          /\ i < j
          /\ ret.report.failures[i][1][1] < ret.report.failures[j][1][1]

---------------------------------------------------------------------------
(* C13 *)

\* C13: on a grid with exactly one open cell, test_rules_all_positions
\* reports success = true, positions_tested = 1 and positions_passed = 1 for
\* every rule set (the empty one included) and every budget, with zero steps
\* taken and no halt: the run from the only open cell takes no step, because
\* coverage is complete before the first step.
C13_OneOpenCell ==
    (call.op = "test_rules_all_positions" /\ Cardinality(OpenCells) = 1) =>
        /\ ret.raised = ""
        /\ ret.report.success
        /\ ret.report.positions_tested = 1
        /\ ret.report.positions_passed = 1
        /\ ret.report.failures = <<>>
        /\ ret.report.max_steps_used = 0
        /\ ret.report.avg_steps = <<0, 1>>
        /\ \A p \in OpenCells :
              /\ FreshRun(p, call.max_steps).success
              /\ FreshRun(p, call.max_steps).steps = 0
              /\ ~FreshRun(p, call.max_steps).halted
              /\ FreshRun(p, call.max_steps).halt_reason = <<>>
              /\ FreshRun(p, call.max_steps).visited = 1

\* The verifier passed a walled-in single open cell under a rule set whose
\* first step would have walked into a wall, with budget to spare.
C13_Witness ==
    /\ call.op = "test_rules_all_positions"
    /\ call.max_steps >= 1
    /\ Cardinality(OpenCells) = 1
    /\ room.height * room.width >= 3
    /\ rules = AlwaysMove("N")
    /\ ret.report.success
    /\ ret.report.positions_passed = 1

---------------------------------------------------------------------------
(* C14 *)

\* A run of the verifier has just returned.
RunReturned == frame.pc = "result"

\* The verifier's runs start at the open cells in row-major order: the run in
\* progress is the one from the open cell that has frame.i open cells before
\* it, and it began from a fresh agent in state 0 with only its start visited.
RunsFromEachOpenCell ==
    frame.pc \in {"run", "result"} =>
        /\ frame.start_pos \in OpenCells
        /\ Cardinality({q \in OpenCells : RowMajorBefore(q, frame.start_pos)})
               = frame.i
        /\ frame.start_pos \in visited
        /\ history = <<>> =>
              position = frame.start_pos /\ state = 0
              /\ visited = {frame.start_pos}
        /\ history # <<>> =>
              history[1].position = frame.start_pos /\ history[1].state = 0

\* C14: on the 5x5 empty room, EMPTY_ROOM_INITIAL and EMPTY_ROOM_OPTIMIZED
\* each reach full coverage from every one of the 9 open starting cells in
\* state 0: each of the 9 runs eventually returns with all 9 open cells
\* visited and success = true, none returns otherwise, and all 9 are made.
C14_SweepCovers5x5 ==
    /\ [](OpenCells = (1..3) \X (1..3))
    /\ []RunsFromEachOpenCell
    /\ [](RunReturned =>
            /\ ret.result.success
            /\ OpenCells \subseteq visited
            /\ ret.result.visited = 9 /\ ret.result.total = 9)
    /\ (frame.pc = "run")
       ~> (RunReturned /\ ret.result.success /\ OpenCells \subseteq visited)
    /\ <>(frame.pc = "done" /\ ret.report.positions_passed = 9)

\* The run from the bottom-right open cell has returned with full coverage
\* after eight or more steps.
C14_Witness ==
    /\ RunReturned
    /\ frame.start_pos = <<3, 3>>
    /\ ret.result.success
    /\ ret.result.steps >= 8
    /\ visited = (1..3) \X (1..3)

---------------------------------------------------------------------------
(* C15 *)

\* C15: in every empty room Room.empty_room(h, w) with h >= 3 and w >= 3,
\* EMPTY_ROOM_INITIAL started in state 0 from any open cell eventually visits
\* every open cell, and test_rules_all_positions reports success.
C15_SweepCoversEveryRoom ==
    /\ []RunsFromEachOpenCell
    /\ [](RunReturned => ret.result.success /\ OpenCells \subseteq visited)
    /\ (frame.pc = "run")
       ~> (RunReturned /\ ret.result.success /\ OpenCells \subseteq visited)
    /\ <>(frame.pc = "done" /\ ret.report.success)

---------------------------------------------------------------------------
(* C16 *)

\* The open cells of the small serpentine maze: the corridors of rows 1, 3, 5
\* and 7 and the three cells that join them.
SmallMazeOpen ==
    ({1, 3, 5, 7} \X (1..7)) \cup {<<2, 7>>, <<4, 1>>, <<6, 7>>}

\* C16: on the small 9x9 serpentine maze, MAZE_INITIAL started in state 0
\* from any open cell eventually visits every open cell and does not halt
\* before coverage is complete: each run of the verifier returns by the
\* coverage break with success, and the agent is never halted while an open
\* cell is unvisited.
C16_MazeInitialCovers ==
    /\ [](room.height = 9 /\ room.width = 9 /\ OpenCells = SmallMazeOpen)
    /\ []RunsFromEachOpenCell
    /\ [](halted => OpenCells \subseteq visited)
    /\ [](RunReturned =>
            /\ ret.exit = "coverage"
            /\ ret.result.success /\ ~ret.result.halted
            /\ OpenCells \subseteq visited)
    /\ (frame.pc = "run") ~> (RunReturned /\ OpenCells \subseteq visited)
    /\ <>(/\ frame.pc = "done"
          /\ ret.report.positions_passed = Cardinality(SmallMazeOpen))

\* The run from the west dead end of the bottom corridor has returned with
\* every open cell visited, the other dead end included.
C16_Witness ==
    /\ rules = MAZE_INITIAL
    /\ Len(rules) = 16
    /\ RunReturned
    /\ frame.start_pos = <<7, 1>>
    /\ ret.result.success
    /\ <<1, 1>> \in visited
    /\ visited = SmallMazeOpen
    /\ ret.result.steps >= 30

---------------------------------------------------------------------------
(* C17 *)

\* C17: on the small 9x9 serpentine maze, the 12-rule MAZE_OPTIMIZED started
\* in state 0 from any open cell eventually visits every open cell, and
\* test_rules_all_positions reports success with every open cell passed.
C17_MazeOptimizedCovers ==
    /\ [](room.height = 9 /\ room.width = 9 /\ OpenCells = SmallMazeOpen)
    /\ []RunsFromEachOpenCell
    /\ [](RunReturned => ret.result.success /\ OpenCells \subseteq visited)
    /\ [](frame.pc = "done" =>
            /\ ret.raised = ""
            /\ ret.report.success
            /\ ret.report.failures = <<>>
            /\ ret.report.positions_tested = Cardinality(SmallMazeOpen)
            /\ ret.report.positions_passed = Cardinality(SmallMazeOpen))
    /\ (frame.pc = "run") ~> (RunReturned /\ OpenCells \subseteq visited)
    /\ <>(frame.pc = "done" /\ ret.report.success)

\* The verifier has returned success for the maze, its longest run having
\* taken more steps than the maze has open cells.
C17_Witness ==
    /\ rules = MAZE_OPTIMIZED
    /\ Len(rules) = 12
    /\ frame.pc = "done"
    /\ ret.report.success
    /\ ret.report.positions_passed = 31
    /\ ret.report.max_steps_used > 31

---------------------------------------------------------------------------
(* C18 *)

\* The coordinate of the last query lies outside the grid.
QueriedOutside ==
    \/ call.row < 0 \/ call.row >= room.height
    \/ call.col < 0 \/ call.col >= room.width

\* What the room stores at the queried coordinate is a wall, everything
\* outside the grid counting as wall.
QueriedWall == QueriedOutside \/ room.grid[call.row + 1][call.col + 1] = WALL

\* C18: for any constructed grid, is_wall(row, col) answers true, without an
\* error, for every coordinate with row < 0, row >= height, col < 0 or
\* col >= width, and otherwise answers whether the stored cell is a wall;
\* is_empty(row, col) answers the negation of that at every coordinate, in
\* or out of bounds.
C18_WallOutsideEmptyNegation ==
    /\ call.op = "is_wall" =>
          /\ ret.raised = ""
          /\ QueriedOutside => ret.value = TRUE
          /\ ~QueriedOutside =>
                ret.value = (room.grid[call.row + 1][call.col + 1] = WALL)
    /\ call.op = "is_empty" =>
          /\ ret.raised = ""
          /\ ret.value = ~QueriedWall

\* is_wall was asked about the coordinate just below an open cell of the last
\* row, one row past the grid, and answered true.
C18_Witness ==
    /\ call.op = "is_wall"
    /\ call.row = room.height
    /\ call.col = room.width - 1
    /\ room.grid[room.height][room.width] = EMPTY
    /\ ret.value = TRUE

---------------------------------------------------------------------------
(* C19 *)

\* The cells of the grid that are not walls.
NotWallCells ==
    {p \in (0..(room.height - 1)) \X (0..(room.width - 1)) :
        room.grid[p[1] + 1][p[2] + 1] # WALL}

\* s lists the cells that are not walls, each once, top to bottom and then
\* left to right.
ListsNotWallCells(s) ==
    /\ {s[i] : i \in 1..Len(s)} = NotWallCells
    /\ Len(s) = Cardinality(NotWallCells)
    /\ \A i, j \in 1..Len(s) : i < j => RowMajorBefore(s[i], s[j])

\* p is the cell that is not a wall and comes first in row-major order.
FirstNotWallCell(p) ==
    /\ p \in NotWallCells
    /\ \A q \in NotWallCells \ {p} : RowMajorBefore(p, q)

\* C19: get_empty_cells returns exactly the in-bounds cells that are not
\* walls, each once, in row-major order; count_empty_cells equals the length
\* of that sequence; and an agent constructed or reset without a start
\* position starts at its first element.
C19_EmptyCellsRowMajor ==
    /\ call.op = "get_empty_cells" => ListsNotWallCells(ret.value)
    /\ call.op = "count_empty_cells" =>
          ret.value = Cardinality(NotWallCells)
    /\ (/\ call.op \in {"__init__", "reset"}
        /\ call.start_position = None
        /\ ret.raised = "") =>
          /\ constructed
          /\ FirstNotWallCell(position)
          /\ visited = {position}

\* An agent was reset without a start position in a room whose first row
\* starts with a wall and whose first column holds an open cell further
\* down: it stands on the first open cell of the first row.
C19_Witness ==
    /\ call.op = "reset"
    /\ call.start_position = None
    /\ ret.raised = ""
    /\ room.height = 2 /\ room.width = 2
    /\ room.grid[1][1] = WALL
    /\ room.grid[1][2] = EMPTY
    /\ room.grid[2][1] = EMPTY
    /\ position = <<0, 1>>

---------------------------------------------------------------------------
(* C20 *)

\* The list of rows has no rows, an empty first row, or rows of differing
\* lengths.
Malformed(grid) ==
    \/ Len(grid) = 0
    \/ Len(grid[1]) = 0
    \/ \E i, j \in 1..Len(grid) : Len(grid[i]) # Len(grid[j])

\* C20: constructing a room fails with an error, producing no room, iff the
\* input has no rows, has an empty first row, or has rows of differing
\* lengths; every constructed room has height >= 1, width >= 1 and every row
\* of length width.
C20_RoomConstruction ==
    /\ call.op = "Room" =>
          /\ ret.raised # "" <=> Malformed(call.grid)
          /\ ret.raised # "" => room = None
          /\ ret.raised = "" => room # None /\ room.grid = call.grid
    /\ room # None =>
          /\ room.height >= 1
          /\ room.width >= 1
          /\ room.height = Len(room.grid)
          /\ \A i \in 1..Len(room.grid) : Len(room.grid[i]) = room.width

\* A list of two rows of different, non-zero lengths was refused and no room
\* exists.
C20_Witness ==
    /\ call.op = "Room"
    /\ Len(call.grid) = 2
    /\ Len(call.grid[1]) = 2
    /\ Len(call.grid[2]) = 1
    /\ ret.raised = "ValueError"
    /\ room = None

---------------------------------------------------------------------------
(* C21 *)

\* What each line of the text last given to parse_rules stands for, when
\* every line is one of the sample lines (whose meaning is known from the way
\* they were spelled), and <<>> otherwise.
Meanings ==
    LET lines == Split(call.text, "\n")
    IN  IF \A i \in 1..Len(lines) : \E m \in LineSamples : m.text = lines[i]
        THEN [i \in 1..Len(lines) |-> CHOOSE m \in LineSamples : m.text = lines[i]]
        ELSE <<>>

\* The lines that spell a rule, whatever its numbers.
RuleLines(mean) == {i \in 1..Len(mean) : mean[i].kind = "rule"}

\* The lines that are not of the form STATE PATTERN -> DIRECTION NEWSTATE
\* (four pattern characters of the pattern alphabet), or whose STATE or
\* NEWSTATE is outside 0..99.
FaultyLines(mean) ==
    {i \in 1..Len(mean) :
        \/ mean[i].kind = "malformed"
        \/ /\ mean[i].kind = "rule"
           /\ \/ mean[i].state \notin 0..99
              \/ mean[i].new_state \notin 0..99}

\* The line number an error message names.
LineCited(message) ==
    IF message[1] = "Invalid rule syntax at line" THEN message[2]
    ELSE message[Len(message)]

CitesFirstOf(message, faulty) ==
    /\ LineCited(message) \in faulty
    /\ \A i \in faulty : LineCited(message) <= i

\* C21: parse_rules fails with an error citing the line whenever a rule
\* line's STATE or NEWSTATE is outside 0..99 or the line does not match the
\* grammar, and then returns no rules at all; every rule it does return has
\* state and new_state in 0..99 and a direction among N, E, W, S, X.
C21_ParseFailsWhole ==
    call.op = "parse_rules" =>
        /\ FaultyLines(Meanings) # {} =>
              /\ ret.raised = "ValueError"
              /\ CitesFirstOf(ret.message, FaultyLines(Meanings))
        /\ ret.raised # "" => ret.value = None
        /\ ret.raised = "" =>
              \A j \in 1..Len(ret.value) :
                  /\ ret.value[j].state \in 0..99
                  /\ ret.value[j].new_state \in 0..99
                  /\ ret.value[j].direction \in {"N", "E", "W", "S", "X"}

\* A text whose first line is a rule and whose last line has NEWSTATE 100
\* was refused as a whole, the error naming the last line.
C21_Witness ==
    /\ call.op = "parse_rules"
    /\ Len(Meanings) = 2
    /\ Meanings[1].kind = "rule"
    /\ FaultyLines(Meanings) = {2}
    /\ ret.raised = "ValueError"
    /\ ret.message = <<"Invalid new_state", 100, "at line", 2>>
    /\ ret.value = None
    /\ rules = <<>>

---------------------------------------------------------------------------
(* C22 *)

\* C22: in every pattern accepted by parse_rules, each of the 4 slots (in
\* NEWS order) holds that slot's own direction letter, the open marker or
\* the wildcard; a pattern with a direction letter in another direction's
\* slot is rejected with an error.
C22_SlotsHoldOwnLetter ==
    (call.op = "parse_rules" /\ ret.raised = "") =>
        \A j \in 1..Len(ret.value) :
            /\ Len(ret.value[j].surroundings_pattern) = 4
            /\ \A k \in 1..4 :
                  ret.value[j].surroundings_pattern[k] \in {Letter[k], "x", "*"}

---------------------------------------------------------------------------
(* C23 *)

\* The elements of a set of numbers in increasing order.
Sorted(S) ==
    [n \in 1..Cardinality(S) |->
        CHOOSE i \in S : Cardinality({k \in S : k < i}) = n - 1]

\* The rules are those of the lines at, one by one and in that order.
RulesOfLines(rl, mean, at) ==
    /\ Len(rl) = Len(at)
    /\ \A j \in 1..Len(at) :
          /\ rl[j].line_number = at[j]
          /\ rl[j].state = mean[at[j]].state
          /\ rl[j].surroundings_pattern = mean[at[j]].slots
          /\ rl[j].direction = mean[at[j]].direction
          /\ rl[j].new_state = mean[at[j]].new_state

\* C23: parse_rules returns exactly one rule per non-blank line that remains
\* after stripping comments, in source order: the j-th returned rule comes
\* from the j-th such line; blank and comment-only lines contribute no rule
\* and do not change the order of the others.
C23_OneRulePerLineInOrder ==
    (call.op = "parse_rules" /\ Meanings # <<>>) =>
        /\ FaultyLines(Meanings) = {} => ret.raised = ""
        /\ ret.raised = "" =>
              RulesOfLines(ret.value, Meanings, Sorted(RuleLines(Meanings)))

\* Two different rules with a comment-only line between them were parsed
\* into two rules, in that order, from lines 1 and 3.
C23_Witness ==
    /\ call.op = "parse_rules"
    /\ Len(Meanings) = 3
    /\ Meanings[2].kind = "blank"
    /\ ret.raised = ""
    /\ Len(ret.value) = 2
    /\ ret.value[1].line_number = 1 /\ ret.value[1].state = 99
    /\ ret.value[2].line_number = 3 /\ ret.value[2].state = 7

---------------------------------------------------------------------------
(* C24 *)

\* The rules held by the caller, rendered with Rule.__str__ one per line.
Rendered == Join([i \in 1..Len(rules) |-> Rule_str(rules[i])])

\* C24: rendering each parsed rule with Rule.__str__, one per line, and
\* parsing the result again yields a rule sequence equal to the first parse,
\* all fields of the rule records compared.
C24_RoundTrip ==
    (call.op = "parse_rules" /\ call.text = Rendered) =>
        /\ ret.raised = ""
        /\ ret.value = rules

---------------------------------------------------------------------------
(* C25 *)

\* The agent as a constructor or a reset has to leave it.
JustStarted ==
    /\ state = 0
    /\ call.start_position # None => position = call.start_position
    /\ visited = {position}
    /\ history = <<>>
    /\ ~halted
    /\ halt_reason = <<>>

\* C25: a newly constructed agent, and an agent immediately after
\* reset(start), has state 0, position = start, visited = {start}, an empty
\* trace and halted = false with an empty halt reason, whatever happened
\* before; a run right after a reset returns what the same run returns on a
\* fresh agent constructed with the same grid, rules and start.
C25_ResetIsFresh ==
    /\ []((call.op \in {"__init__", "reset"} /\ ret.raised = "") => JustStarted)
    /\ [][(call.op = "reset" /\ ret.raised = "" /\ call'.op = "run") =>
            /\ Picobot(room, rules, call.start_position).raised = ""
            /\ ret'.result = run(Picobot(room, rules, call.start_position).self,
                                 room, rules, call'.max_steps,
                                 call'.stop_on_full_coverage).ret]_vars

---------------------------------------------------------------------------
(* C26 *)

\* C26: a rule with the stay direction changes only the state: on a
\* non-halted agent the step leaves the position and the visited set
\* unchanged, sets the state to the rule's new_state, returns True, and is
\* never an illegal move.
C26_StayChangesOnlyState ==
    [][(StepCalled /\ Selected # None /\ Selected[1].direction = "X") =>
        /\ position' = position
        /\ visited' = visited
        /\ state' = Selected[1].new_state
        /\ ret'.ok = TRUE
        /\ ~halted'
        /\ halt_reason' = <<>>]_vars

---------------------------------------------------------------------------
(* C27 *)

IsPrefix(s, t) == Len(s) <= Len(t) /\ SubSeq(t, 1, Len(s)) = s

\* C27: between resets the visited set only grows and the trace is
\* append-only: a step leaves visited a superset of its previous value with
\* at most one cell more and the previous trace as a prefix with at most one
\* record more; a run, being a sequence of steps, adds no more cells than
\* records and no more records than its step budget.
C27_VisitedAndTraceGrow ==
    [][(call'.op \in {"step", "run"}) =>
        /\ visited \subseteq visited'
        /\ IsPrefix(history, history')
        /\ Cardinality(visited' \ visited) <= Len(history') - Len(history)
        /\ call'.op = "step" => Len(history') <= Len(history) + 1
        /\ call'.op = "run" => Len(history') <= Len(history) + call'.max_steps]_vars

\* After three steps without a reset the trace has three records and three
\* cells are visited: two steps added a cell each, one added none.
C27_Witness ==
    /\ call.op = "step"
    /\ Len(history) = 3
    /\ Cardinality(visited) = 3
    /\ history[1].position \in visited

---------------------------------------------------------------------------
(* C28 *)

\* C28: step, run and test_rules_all_positions never modify the grid
\* (height, width, cell kinds) or the rule sequence (length, order, rule
\* fields): across every such operation both stay what they were at
\* construction, and a step or run changes nothing but the agent's position,
\* state, visited, trace and halted fields.
C28_RoomAndRulesReadOnly ==
    [][/\ room' = room
       /\ rules' = rules
       /\ call'.op \in {"step", "run"} => constructed' = constructed /\ frame' = frame]_vars

\* test_rules_all_positions has returned after at least two runs, the
\* longest of at least two steps.
C28_Witness ==
    /\ frame.pc = "done"
    /\ ret.raised = ""
    /\ ret.report.positions_tested >= 2
    /\ ret.report.max_steps_used >= 2
    /\ rules # <<>>

---------------------------------------------------------------------------
(* C29 *)

\* C29 as stated: the state of an agent is a value that appears, as state or
\* as new_state, in some rule of the rule set.
C29_StateFromRules ==
    constructed =>
        \E i \in 1..Len(rules) : state \in {rules[i].state, rules[i].new_state}

\* C29, amended: the state of an agent is 0, the start state, or the
\* new_state of some rule of the rule set.
C29_StateZeroOrNewState ==
    constructed =>
        \/ state = 0
        \/ \E i \in 1..Len(rules) : state = rules[i].new_state

\* A step has taken the agent out of state 0.
C29_Witness ==
    /\ call.op = "step"
    /\ ret.ok
    /\ state # 0
    /\ history[Len(history)].state = 0

---------------------------------------------------------------------------
(* C30 *)

\* C30: halting is absorbing: a step on a halted agent returns a halt
\* (False) and changes nothing, position, state, visited, trace, halted flag
\* and halt reason included, until reset is called; and the halt reason is
\* non-empty iff halted is true.
C30_HaltIsAbsorbing ==
    /\ [](halt_reason # <<>> <=> halted)
    /\ [][(halted /\ call'.op = "step") =>
            /\ ret'.ok = FALSE
            /\ ret'.raised = ""
            /\ UNCHANGED <<position, state, visited, history, halted,
                           halt_reason>>]_vars

\* step was called on an agent that a run had left halted: it returned False
\* and the trace still ends with the halting record of that run.
C30_Witness ==
    /\ call.op = "step"
    /\ ~ret.ok
    /\ halted
    /\ halt_reason # <<>>
    /\ Len(history) = 2
    /\ history[2].new_position = history[2].position
    /\ history[1].new_position # history[1].position

---------------------------------------------------------------------------
(* C31 *)

\* A record of a step that halted: no rule was applied, or the rule applied
\* names a move and the position did not change.
HaltingRecord(rec) ==
    \/ rec.rule_applied = None
    \/ /\ rec.rule_applied[1].direction # "X"
       /\ rec.new_position = rec.position

\* The records of a trace are numbered from 0, each starts where the one
\* before it ended, and none but the last is a halting record.
Chained(trace) ==
    /\ \A i \in 1..Len(trace) : trace[i].step_number = i - 1
    /\ \A i \in 2..Len(trace) :
          /\ trace[i].position = trace[i - 1].new_position
          /\ trace[i].state = trace[i - 1].new_state
    /\ \A i \in 1..(Len(trace) - 1) : ~HaltingRecord(trace[i])

\* C31: the trace is a consistent chain in every reachable state: the i-th
\* record (counted from 0) has step_number i; the first record's
\* pre-position and pre-state are the start position and state 0, the values
\* the agent holds while its trace is empty; each later record's
\* pre-position and pre-state equal the previous record's post-position and
\* post-state; the last record's post-values equal the agent's current
\* position and state; and only the last record can be a halting record.
C31_TraceIsChain ==
    /\ [](constructed =>
            /\ Chained(history)
            /\ history = <<>> => state = 0
            /\ history # <<>> =>
                  /\ history[1].state = 0
                  /\ Last(history).new_position = position
                  /\ Last(history).new_state = state)
    /\ [][(history = <<>> /\ history' # <<>>) =>
            /\ history'[1].position = position
            /\ history'[1].state = state]_vars

\* A trace of three records: two moves, the second into another state, and
\* a halting record at the end.
C31_Witness ==
    /\ constructed
    /\ Len(history) = 3
    /\ history[1].new_position # history[1].position
    /\ history[2].new_position # history[2].position
    /\ history[2].new_state # history[2].state
    /\ HaltingRecord(history[3])
    /\ halted

---------------------------------------------------------------------------
(* C32 *)

\* Where the agent started: the pre-position of its first record, or where
\* it stands while no step has been recorded.
TraceStart == IF history = <<>> THEN position ELSE history[1].position

\* C32: in every reachable state the visited set equals the start position
\* together with the post-positions of all trace records, and the agent's
\* current position is a member of visited.
C32_VisitedIsTraceFootprint ==
    constructed =>
        /\ visited = {TraceStart} \cup
                     {history[i].new_position : i \in 1..Len(history)}
        /\ position \in visited

\* Two steps were taken, a move out and a step that ends on the start cell
\* again: the visited set holds the two cells of the trace.
C32_Witness ==
    /\ constructed
    /\ call.op = "step"
    /\ Len(history) = 2
    /\ Cardinality(visited) = 2
    /\ history[1].new_position # history[1].position
    /\ history[2].rule_applied # None
    /\ history[2].new_position = history[1].position

---------------------------------------------------------------------------
(* C33 *)

Adjacent(p, q) ==
    \/ p[1] = q[1] /\ (p[2] - q[2]) \in {-1, 1}
    \/ p[2] = q[2] /\ (p[1] - q[1]) \in {-1, 1}

\* The open cells next to a cell of S, added to S until nothing is added.
RECURSIVE Flood(_)
Flood(S) ==
    IF \E q \in OpenCells \ S : \E p \in S : Adjacent(p, q)
    THEN Flood(S \cup {q \in OpenCells : \E p \in S : Adjacent(p, q)})
    ELSE S

\* The cells that a path of 4-adjacent open cells beginning at p reaches.
Component(p) == IF OpenCell(p) THEN Flood({p}) ELSE {}

OpenCellsConnected == \A p \in OpenCells : OpenCells \subseteq Component(p)

\* C33: every visited cell is reachable from the start cell through a path
\* of 4-adjacent open cells; consequently, on a grid whose open cells are
\* not all 4-connected, no run succeeds, whatever the rule set and the
\* starting cell, and test_rules_all_positions reports a failure for every
\* start.
C33_VisitedIsConnected ==
    /\ constructed => visited \subseteq Component(TraceStart)
    /\ (constructed /\ call.op = "run" /\ ~OpenCellsConnected) =>
          ~ret.result.success
    /\ (call.op = "test_rules_all_positions" /\ ~OpenCellsConnected) =>
          /\ ~ret.report.success
          /\ ret.report.positions_passed = 0
          /\ Len(ret.report.failures) = ret.report.positions_tested
          /\ ret.report.positions_tested = Cardinality(OpenCells)

---------------------------------------------------------------------------
(* C34 *)

\* C34: the steps value returned by run equals the number of trace records
\* appended during that run call, for every agent state in which run can be
\* called: fresh, partially stepped, already complete, or already halted.
C34_StepsCountRecords ==
    [][(call'.op = "run") =>
          ret'.result.steps = Len(history') - Len(history)]_vars

---------------------------------------------------------------------------
(* C35 *)

\* C35: for a fresh agent run with stop_on_full_coverage = true, a result
\* with halted = true always has success = false: a halting step is only
\* ever attempted while coverage is incomplete and it adds nothing to
\* visited; so within test_rules_all_positions every halted run is filed
\* under failures and none under passed.
C35_HaltedRunFails ==
    /\ [][(/\ call'.op = "run"
           /\ call'.stop_on_full_coverage
           /\ history = <<>>
           /\ ret'.result.halted) =>
            /\ ~ret'.result.success
            /\ Cardinality(visited') < Cardinality(OpenCells)
            /\ visited' = {history'[i].position : i \in 1..Len(history')}]_vars
    /\ [][(frame.pc = "result" /\ ret.result.halted) =>
            /\ ~ret.result.success
            /\ frame'.passed = frame.passed
            /\ frame'.failures =
                  Append(frame.failures, <<frame.start_pos, ret.result>>)]_vars

\* test_rules_all_positions has returned: a run that moved and then halted
\* is among its failures, and a run from another start has passed.
C35_Witness ==
    /\ frame.pc = "done"
    /\ ret.report.positions_passed >= 1
    /\ \E i \in 1..Len(ret.report.failures) :
          /\ ret.report.failures[i][2].halted
          /\ ret.report.failures[i][2].steps >= 2
          /\ ret.report.failures[i][2].visited >= 2

---------------------------------------------------------------------------
(* C36 *)

\* The agent that run(max_steps, stop_on_full_coverage) leaves behind when
\* called on the agent self.
AgentAfterRun(self, max_steps, stop_on_full_coverage) ==
    run(self, self.room, self.rules, max_steps, stop_on_full_coverage).self

\* C36: run is resumable: for the same stop_on_full_coverage setting,
\* calling run(m) and then run(n) on an agent leaves the agent (position,
\* state, visited, trace, halted flag and reason) in exactly the state that
\* a single run(m + n) from the same starting agent state would leave it in.
\* The agent may be in any state run can be called in; m and n range over
\* the budgets of two runs that fit the trace bound one after the other.
C36_RunIsResumable ==
    constructed =>
        \A m, n \in 0..MaxSteps, stop_on_full_coverage \in BOOLEAN :
            (Len(history) + m + n <= MaxHistory) =>
                AgentAfterRun(AgentAfterRun(Self, m, stop_on_full_coverage),
                              n, stop_on_full_coverage) =
                AgentAfterRun(Self, m + n, stop_on_full_coverage)

\* A second run of one step has followed a run of two steps that used up its
\* budget: the trace has the three records of a single run of three steps.
C36_Witness ==
    /\ call.op = "run"
    /\ call.max_steps = 1
    /\ ret.result.steps = 1
    /\ ~halted
    /\ Len(history) = 3
    /\ Self = AgentAfterRun([Self EXCEPT
                                !.position = history[1].position,
                                !.state = 0,
                                !.visited = {history[1].position},
                                !.history = <<>>],
                            3, call.stop_on_full_coverage)

---------------------------------------------------------------------------
(* C37 *)

\* A record of a step that applied a stay rule.
StayRecord(rec) ==
    /\ rec.rule_applied # None
    /\ rec.rule_applied[1].direction = "X"

\* The trace without its stay steps.
Moves(trace) == SelectSeq(trace, LAMBDA rec : ~StayRecord(rec))

\* The trace of an agent with the rule list rl that was constructed where
\* this agent started and has taken k steps, or fewer if it halted before.
TraceOf(rl, k) ==
    AgentAfterRun(Picobot(room, rl, TraceStart).self, k, FALSE).history

\* Two traces go through the same positions record by record, and where one
\* has a halting record the other has one of the same kind.
SameWalk(mine, other) ==
    /\ Len(mine) = Len(other)
    /\ \A i \in 1..Len(mine) :
          /\ mine[i].position = other[i].position
          /\ mine[i].new_position = other[i].new_position
          /\ HaltingRecord(mine[i]) <=> HaltingRecord(other[i])
          /\ (mine[i].rule_applied = None) <=> (other[i].rule_applied = None)

\* C37: EMPTY_ROOM_OPTIMIZED (6 rules) behaves like EMPTY_ROOM_INITIAL (7
\* rules) on every grid and from every legal start: after deleting stay
\* steps from the optimized run, both visit the same sequence of positions,
\* and one halts iff the other halts, at the same position and for the same
\* kind of reason.
C37_EmptyRoomSolutionsAgree ==
    (constructed /\ rules = EMPTY_ROOM_OPTIMIZED) =>
        SameWalk(Moves(history),
                 TraceOf(EMPTY_ROOM_INITIAL, Len(Moves(history))))

\* The optimized solution has stayed put under the north wall, swept a row
\* East and West, gone down a row and halted later on.
C37_Witness ==
    /\ constructed
    /\ rules = EMPTY_ROOM_OPTIMIZED
    /\ halted
    /\ Len(history) > Len(Moves(history))
    /\ \E i, j, k \in 1..Len(history) :
          /\ i < j /\ j < k
          /\ history[i].rule_applied # None
          /\ history[i].rule_applied[1].direction = "E"
          /\ history[j].rule_applied # None
          /\ history[j].rule_applied[1].direction = "W"
          /\ history[k].rule_applied # None
          /\ history[k].rule_applied[1].direction = "S"
          /\ history[k].new_position # history[k].position

---------------------------------------------------------------------------
(* C38 *)

\* Some open cell of the grid has a wall on each of its four sides.
SomeCellWalledIn ==
    \E p \in OpenCells : \A i \in 1..4 : ~OpenCell(Target(p, Letter[i]))

\* Two traces go through the same positions and halts, and pass through the
\* same state after each step.
SameWalkAndFacing(mine, other) ==
    /\ SameWalk(mine, other)
    /\ \A i \in 1..Len(mine) :
          /\ mine[i].new_state = other[i].new_state
          /\ i > 1 => mine[i - 1].new_state = other[i].state

\* C38: MAZE_OPTIMIZED (12 rules) behaves like MAZE_INITIAL (16 rules) on
\* every grid in which no open cell is walled on all four sides: from every
\* legal start, after deleting stay steps from the optimized run, both visit
\* the same sequence of positions and pass through the same facing state
\* after each move.
C38_MazeSolutionsAgree ==
    (constructed /\ rules = MAZE_OPTIMIZED /\ ~SomeCellWalledIn) =>
        SameWalkAndFacing(Moves(history),
                          TraceOf(MAZE_INITIAL, Len(Moves(history))))

\* The optimized solution has stayed put twice in a row, at a dead end, and
\* has moved in each of the four directions.
C38_Witness ==
    /\ constructed
    /\ rules = MAZE_OPTIMIZED
    /\ ~SomeCellWalledIn
    /\ \E i \in 2..Len(history) :
          StayRecord(history[i - 1]) /\ StayRecord(history[i])
    /\ \A d \in {"N", "E", "W", "S"} :
          \E i \in 1..Len(history) :
              /\ history[i].rule_applied # None
              /\ history[i].rule_applied[1].direction = d

---------------------------------------------------------------------------
(* C39 *)

\* The 16 surroundings an agent can observe: each side is its own letter or
\* open.
AllSurroundings ==
    {s \in [1..4 -> {"N", "E", "W", "S", "x"}] :
        \A i \in 1..4 : s[i] \in {Letter[i], "x"}}

\* The rule stays put, or moves to a side that its pattern requires to be
\* open.
MovesWhereOpen(rule) ==
    \/ rule.direction = "X"
    \/ \E i \in 1..4 :
          /\ Letter[i] = rule.direction
          /\ rule.surroundings_pattern[i] = "x"

---------------------------------------------------------------------------
(* C40 *)

\* The rule that first-match-wins selects from the list rl, as <<rule>>, or
\* None.
FirstApplying(rl, st, pattern) ==
    IF \E i \in 1..Len(rl) : Applies(rl[i], st, pattern)
    THEN <<rl[First({i \in 1..Len(rl) : Applies(rl[i], st, pattern)})]>>
    ELSE None

=============================================================================
